---- MODULE Spec2Model ----
(***************************************************************************)
(* The OAuth authorization server of implement-taskmanagement-jira-mcp     *)
(* (deployment/oauth_handler.py) over its DynamoDB table.                  *)
(*                                                                         *)
(* Text (a Python str) is a sequence of tokens, so that concatenation,     *)
(* prefixes and the empty string are the sequence operations; error codes  *)
(* and dictionary keys are TLA+ strings.  A Python dict is a function      *)
(* whose DOMAIN is its key set.                                            *)
(***************************************************************************)
EXTENDS Integers, Sequences, FiniteSets, TLC

-----------------------------------------------------------------------------
(* Bounds of the model *)

MaxRand == 3    \* calls of os.urandom(32) by the sequential invocations
MaxTicks == 2   \* advances of the clock
MaxProcs == 2   \* concurrent invocations of handle_token_request

-----------------------------------------------------------------------------
(* Program constants *)

CODE_TTL == 600
TOKEN_TTL == 3600
CLIENT_TTL == 30 * 24 * 60 * 60
EXPIRES_IN == 3600

-----------------------------------------------------------------------------
(* Text *)

EMPTY == << >>

StartsWith(s, prefix) ==
    /\ Len(prefix) <= Len(s)
    /\ SubSeq(s, 1, Len(prefix)) = prefix

\* str.rstrip('='): drop every trailing "=".
RECURSIVE rstrip(_)
rstrip(s) ==
    IF s # EMPTY /\ s[Len(s)] = "="
    THEN rstrip(SubSeq(s, 1, Len(s) - 1))
    ELSE s

\* base64.urlsafe_b64encode of 32 bytes: 43 symbols and one "=" of padding.
urlsafe_b64encode(bytes) == <<"b64(">> \o bytes \o <<")", "=">>

\* hashlib.sha256(text.encode('utf-8')).digest(): injective on the texts of
\* the model, and never the text itself.
sha256(text) == <<"sha256(">> \o text \o <<")">>

\* What a PKCE client sends as code_challenge for its verifier (RFC 7636).
S256Challenge(verifier) == rstrip(urlsafe_b64encode(sha256(verifier)))

\* dict.get(key, default)
Get(dict, key, default) == IF key \in DOMAIN dict THEN dict[key] ELSE default

-----------------------------------------------------------------------------
(* Generators: uuid.uuid4() and os.urandom(32) never repeat a value; the   *)
(* n-th call returns the n-th name.                                        *)

UuidNames == <<"uuid-1", "uuid-2", "uuid-3", "uuid-4", "uuid-5", "uuid-6",
               "uuid-7", "uuid-8">>
RandNames == <<"rnd-1", "rnd-2", "rnd-3", "rnd-4", "rnd-5", "rnd-6",
               "rnd-7", "rnd-8", "rnd-9", "rnd-10", "rnd-11", "rnd-12">>

\* uuid4 returning one value every time.
uuid4_constant(n) == <<UuidNames[1]>>

uuid4(n) == <<UuidNames[n + 1]>>
urandom(n) == <<RandNames[n + 1]>>

\* base64.urlsafe_b64encode(os.urandom(32)).decode('utf-8').rstrip('=')
token_urlsafe(n) == rstrip(urlsafe_b64encode(urandom(n)))

-----------------------------------------------------------------------------
(* The DynamoDB table: one item per value of the key attribute client_id.  *)
(* boto3 hands numbers back as Decimal, which the handlers turn into int.  *)

Decimal(n) == [decimal |-> n]
int(d) == d.decimal

NumberAttributes == {"created_at", "expires_at"}

get_item(tbl, key) ==
    IF key \in DOMAIN tbl THEN [Item |-> tbl[key]] ELSE << >>

put_item(tbl, Item) ==
    LET stored == [a \in DOMAIN Item |->
                     IF a \in NumberAttributes THEN Decimal(Item[a]) ELSE Item[a]]
    IN [k \in DOMAIN tbl \cup {Item.client_id} |->
          IF k = Item.client_id THEN stored ELSE tbl[k]]

\* delete_item without effect: the item stays in the table.
delete_item_keeps(tbl, key) == tbl

delete_item(tbl, key) == [k \in DOMAIN tbl \ {key} |-> tbl[k]]

AUTH_CODE_PREFIX == <<"auth_code_">>
ACCESS_TOKEN_PREFIX == <<"access_token_">>

IsCodeKey(k) == StartsWith(k, AUTH_CODE_PREFIX)
IsTokenKey(k) == StartsWith(k, ACCESS_TOKEN_PREFIX)
IsClientKey(k) == ~IsCodeKey(k) /\ ~IsTokenKey(k)

-----------------------------------------------------------------------------
(* State *)

VARIABLES
    table,      \* the DynamoDB table: key -> item
    now,        \* int(time.time())
    nUuid,      \* number of uuid4() calls so far
    nRand,      \* number of os.urandom(32) calls so far
    ticks,      \* number of times the clock has advanced
    event,      \* the event of the Lambda invocation in flight, or NoEvent
    before,     \* the table and the clock as the invocation in flight found them
    result,     \* what the MCPOAuthServer method returned (or that it raised)
    response,   \* what lambda_handler returned
    storeError, \* the store call that raised during the invocation, or "none"
    issued,     \* history: auth code -> the item stored for it by authorize
    minted,     \* history: access token -> the item stored for it and its code
    procs,      \* the concurrent invocations of handle_token_request
    call,       \* the MCP call in flight (gateway event, MCPRequest or
                \* JiraClient operation) and the behaviour of JIRA, or NoCall
    answer,     \* what the call returned or raised
    invoked,    \* the tool dispatches and JiraClient operations of the call
    breaker,    \* bedrock_circuit_breaker: state, failure_count, last_failure_time
    clock,      \* time.time() of the Bedrock service
    claude_model_id, \* BedrockService.claude_model_id
    lastOp      \* the last operation of the Bedrock service or of the drawing
                \* function, with what it was given and what it did, or NoOp

oauthVars == <<table, now, nUuid, nRand, ticks, event, before, result,
               response, storeError, issued, minted, procs>>
mcpVars == <<call, answer, invoked>>
svcVars == <<breaker, clock, claude_model_id, lastOp>>
vars == <<oauthVars, mcpVars, svcVars>>

NoCall == [kind |-> "none"]
NoAnswer == [kind |-> "none"]
NoOp == [kind |-> "none"]

None == "None"

\* CircuitBreaker.__init__
NewBreaker == [state |-> "CLOSED", failure_count |-> 0, last_failure_time |-> None]

\* BedrockService.claude_models, in order of preference.
claude_models ==
    <<"anthropic.claude-3-haiku-20240307-v1:0",
      "anthropic.claude-3-opus-20240229-v1:0",
      "anthropic.claude-3-5-haiku-20241022-v1:0",
      "anthropic.claude-3-7-sonnet-20250219-v1:0",
      "anthropic.claude-3-5-sonnet-20240620-v1:0",
      "anthropic.claude-3-sonnet-20240229-v1:0",
      "anthropic.claude-v2:1">>

NoEvent == [httpMethod |-> "none"]
NoResult == [kind |-> "none"]
NoResponse == [statusCode |-> 0]
NoSnapshot == [table |-> << >>, now |-> 0]

\* What a method of MCPOAuthServer does: return a value, or raise.
Return(value) == [kind |-> "return", value |-> value]
Raise == [kind |-> "raise"]

\* The outcome of a method: its result, the table it leaves, the generator
\* calls it made, the seconds that passed, the store call that raised, and
\* the items it put (for the histories).
Outcome(res, tbl, uuids, rands, elapsed, failed, code, token) ==
    [result |-> res, table |-> tbl, uuids |-> uuids, rands |-> rands,
     elapsed |-> elapsed, failed |-> failed, code |-> code, token |-> token]

NoItem == << >>

_error_response(error, description) ==
    [error |-> error, error_description |-> description]

-----------------------------------------------------------------------------
(* Request bodies.  A body is None, or text that is a JSON object, a JSON   *)
(* array, a form (a sequence of fields <<name, value>>, or <<name>> for a  *)
(* field without "=") or anything else; utf8 tells whether the bytes of a   *)
(* base64-encoded body are valid UTF-8.                                    *)

Body(kind, value) == [kind |-> kind, value |-> value, utf8 |-> TRUE]
NoBody == Body("none", << >>)
Form(fields) == Body("form", fields)
Json(object) == Body("json", object)
NotUtf8 == [kind |-> "text", value |-> << >>, utf8 |-> FALSE]

\* Python's truth value of the body: None and '' are false.
Truthy(body) == ~(body.kind = "none" \/ (body.kind = "form" /\ body.value = << >>))

\* urllib.parse.parse_qs(body): a field without "=" and a field with a blank
\* value are dropped; the values of a name are listed in order.
parse_qs(body) ==
    LET fields == IF body.kind = "form" THEN body.value ELSE << >>
        Kept(f) == Len(f) = 2 /\ f[2] # EMPTY
        names == {fields[i][1] : i \in {j \in DOMAIN fields : Kept(fields[j])}}
        ValuesOf(n) ==
            LET sel == SelectSeq(fields, LAMBDA f : Kept(f) /\ f[1] = n)
            IN [i \in DOMAIN sel |-> sel[i][2]]
    IN [n \in names |-> ValuesOf(n)]

\* params.get(name, [''])[0]
First(params, name) == Get(params, name, <<EMPTY>>)[1]

\* The JSON values a registration request can give for redirect_uris: an
\* array of strings or, since the type is not validated, one string.
List(items) == [list |-> items]
Str(text) == [str |-> text]
Falsy(value) == value \in {List(<< >>), Str(EMPTY)}

-----------------------------------------------------------------------------
(* MCPOAuthServer.handle_authorization_server_metadata *)

handle_authorization_server_metadata ==
    Outcome(Return([issuer |-> EMPTY,
                    code_challenge_methods_supported |-> <<"S256">>,
                    grant_types_supported |-> <<"authorization_code">>]),
            table, 0, 0, 0, "none", NoItem, NoItem)

-----------------------------------------------------------------------------
(* MCPOAuthServer.handle_dynamic_client_registration *)

handle_dynamic_client_registration(request_body, fault, drift) ==
    IF request_body.kind = "none"
    THEN \* json.loads(None): TypeError, which the method does not catch
         Outcome(Raise, table, 0, 0, 0, "none", NoItem, NoItem)
    ELSE IF request_body.kind \notin {"json", "json_array"}
    THEN Outcome(Return(_error_response("invalid_request", "Invalid JSON in request body")),
                 table, 0, 0, 0, "none", NoItem, NoItem)
    ELSE IF request_body.kind = "json_array"
    THEN \* list.get: AttributeError
         Outcome(Raise, table, 0, 0, 0, "none", NoItem, NoItem)
    ELSE
    LET registration_request == request_body.value
        redirect_uris == Get(registration_request, "redirect_uris", List(<< >>))
    IN  IF Falsy(redirect_uris)
        THEN Outcome(Return(_error_response("invalid_redirect_uri", "redirect_uris is required")),
                     table, 0, 0, 0, "none", NoItem, NoItem)
        ELSE
        LET client_id == uuid4(nUuid)
            client_secret == token_urlsafe(nRand)
            client_data ==
                [client_id |-> client_id,
                 client_secret |-> client_secret,
                 redirect_uris |-> redirect_uris,
                 grant_types |-> Get(registration_request, "grant_types", <<"authorization_code">>),
                 response_types |-> Get(registration_request, "response_types", <<"code">>),
                 scope |-> Get(registration_request, "scope", <<"mcp:read", " ", "mcp:write">>),
                 client_name |-> Get(registration_request, "client_name", <<"MCP Client">>),
                 created_at |-> now,
                 expires_at |-> now + drift + CLIENT_TTL]
        IN  IF fault = "put_item"
            THEN Outcome(Raise, table, 1, 1, drift, "put_item", NoItem, NoItem)
            ELSE Outcome(Return([client_id |-> client_id,
                                 client_secret |-> client_secret,
                                 redirect_uris |-> redirect_uris,
                                 grant_types |-> client_data.grant_types,
                                 response_types |-> client_data.response_types,
                                 client_name |-> client_data.client_name,
                                 scope |-> client_data.scope]),
                         put_item(table, client_data), 1, 1, drift, "none", NoItem, NoItem)

-----------------------------------------------------------------------------
(* MCPOAuthServer.handle_authorization_request *)

\* x in text, for two strings: x occurs in text.
IsSubstring(x, text) ==
    \E i \in 0..(Len(text) - Len(x)) : SubSeq(text, i + 1, i + Len(x)) = x

\* redirect_uri in client['redirect_uris']: an element of a list, a substring
\* of a string.
Contains(x, container) ==
    IF "list" \in DOMAIN container
    THEN \E i \in DOMAIN container.list : container.list[i] = x
    ELSE IsSubstring(x, container.str)

RedirectUrl(redirect_uri, auth_code, state) ==
    redirect_uri \o <<"?code=">> \o auth_code
        \o (IF state # EMPTY THEN <<"&state=">> \o state ELSE EMPTY)

\* The PKCE check accepting the plain method as well.
PkceRequired_or_plain(code_challenge, code_challenge_method) ==
    code_challenge = EMPTY \/ code_challenge_method \notin {<<"S256">>, <<"plain">>}

\* The PKCE check looking at the method only.
PkceRequired_method_only(code_challenge, code_challenge_method) ==
    code_challenge_method # <<"S256">>

PkceRequired(code_challenge, code_challenge_method) ==
    code_challenge = EMPTY \/ code_challenge_method # <<"S256">>

handle_authorization_request(query_params, fault, drift) ==
    LET client_id == First(query_params, "client_id")
        redirect_uri == First(query_params, "redirect_uri")
        scope == First(query_params, "scope")
        state == First(query_params, "state")
        code_challenge == First(query_params, "code_challenge")
        code_challenge_method == First(query_params, "code_challenge_method")
        got == get_item(table, client_id)
    IN  IF fault = "get_item"
        THEN Outcome(Return(_error_response("server_error", "Database error")),
                     table, 0, 0, 0, "get_item", NoItem, NoItem)
        ELSE IF "Item" \notin DOMAIN got
        THEN Outcome(Return(_error_response("invalid_client", "Client not found")),
                     table, 0, 0, 0, "none", NoItem, NoItem)
        ELSE IF "redirect_uris" \notin DOMAIN got.Item
        THEN \* client['redirect_uris']: KeyError, outside the try block
             Outcome(Raise, table, 0, 0, 0, "none", NoItem, NoItem)
        ELSE IF ~Contains(redirect_uri, got.Item.redirect_uris)
        THEN Outcome(Return(_error_response("invalid_request", "Invalid redirect_uri")),
                     table, 0, 0, 0, "none", NoItem, NoItem)
        ELSE IF PkceRequired(code_challenge, code_challenge_method)
        THEN Outcome(Return(_error_response("invalid_request", "PKCE required with S256 method")),
                     table, 0, 0, 0, "none", NoItem, NoItem)
        ELSE
        LET auth_code == token_urlsafe(nRand)
            auth_data ==
                [client_id |-> AUTH_CODE_PREFIX \o auth_code,
                 code |-> auth_code,
                 client_id_original |-> client_id,
                 redirect_uri |-> redirect_uri,
                 scope |-> scope,
                 code_challenge |-> code_challenge,
                 code_challenge_method |-> code_challenge_method,
                 created_at |-> now,
                 expires_at |-> now + drift + CODE_TTL]
            redirect_url == RedirectUrl(redirect_uri, auth_code, state)
        IN  IF fault = "put_item"
            THEN Outcome(Raise, table, 0, 1, drift, "put_item", NoItem, NoItem)
            ELSE Outcome(Return([statusCode |-> 302,
                                 headers |-> [Location |-> redirect_url,
                                              ContentType |-> "text/html"],
                                 body |-> redirect_url]),
                         put_item(table, auth_data), 0, 1, drift, "none",
                         put_item(table, auth_data)[auth_data.client_id], NoItem)

-----------------------------------------------------------------------------
(* MCPOAuthServer._verify_pkce *)

_verify_pkce(code_verifier, code_challenge) ==
    IF code_verifier = EMPTY \/ code_challenge = EMPTY
    THEN FALSE
    ELSE LET verifier_hash == sha256(code_verifier)
             expected_challenge == rstrip(urlsafe_b64encode(verifier_hash))
         IN expected_challenge = code_challenge

-----------------------------------------------------------------------------
(* MCPOAuthServer.handle_token_request, in the pieces its concurrent       *)
(* invocations interleave: the parameter checks, the store calls and the   *)
(* checks between them.                                                    *)

OK == [ok |-> TRUE]

TokenParams(request_body) ==
    LET params == parse_qs(request_body)
    IN [grant_type |-> First(params, "grant_type"),
        code |-> First(params, "code"),
        redirect_uri |-> First(params, "redirect_uri"),
        client_id |-> First(params, "client_id"),
        code_verifier |-> First(params, "code_verifier")]

\* The checks in the other order: the missing parameters first.
TokenPrecheck_parameters_first(p) ==
    IF EMPTY \in {p.code, p.redirect_uri, p.client_id, p.code_verifier}
    THEN _error_response("invalid_request", "Missing required parameters")
    ELSE IF p.grant_type # <<"authorization_code">>
    THEN _error_response("unsupported_grant_type", "Only authorization_code supported")
    ELSE OK

TokenPrecheck(p) ==
    IF p.grant_type # <<"authorization_code">>
    THEN _error_response("unsupported_grant_type", "Only authorization_code supported")
    ELSE IF EMPTY \in {p.code, p.redirect_uri, p.client_id, p.code_verifier}
    THEN _error_response("invalid_request", "Missing required parameters")
    ELSE OK

CodeKey(code) == AUTH_CODE_PREFIX \o code
TokenKey(token) == ACCESS_TOKEN_PREFIX \o token

\* The verification without the comparison of client_id.
TokenVerify_any_client(p, auth_data) ==
    IF ~_verify_pkce(p.code_verifier, auth_data.code_challenge)
    THEN _error_response("invalid_grant", "PKCE verification failed")
    ELSE IF p.redirect_uri # auth_data.redirect_uri
    THEN _error_response("invalid_grant", "Client or redirect URI mismatch")
    ELSE OK

TokenVerify(p, auth_data) ==
    IF ~_verify_pkce(p.code_verifier, auth_data.code_challenge)
    THEN _error_response("invalid_grant", "PKCE verification failed")
    ELSE IF p.client_id # auth_data.client_id_original
            \/ p.redirect_uri # auth_data.redirect_uri
    THEN _error_response("invalid_grant", "Client or redirect URI mismatch")
    ELSE OK

\* The token record with the scope of the code left out.
TokenData_without_scope(p, auth_data, access_token, t, drift) ==
    [client_id |-> TokenKey(access_token),
     access_token |-> access_token,
     client_id_original |-> p.client_id,
     scope |-> EMPTY,
     created_at |-> t,
     expires_at |-> t + drift + TOKEN_TTL]

TokenData(p, auth_data, access_token, t, drift) ==
    [client_id |-> TokenKey(access_token),
     access_token |-> access_token,
     client_id_original |-> p.client_id,
     scope |-> auth_data.scope,
     created_at |-> t,
     expires_at |-> t + drift + TOKEN_TTL]

TokenSuccess(access_token, auth_data) ==
    [access_token |-> access_token,
     token_type |-> "Bearer",
     expires_in |-> EXPIRES_IN,
     scope |-> auth_data.scope]

\* The history entry of a stored access token: its item as stored, the code
\* redeemed for it and the client_id of the request that redeemed it.
Minted(tbl, token_data, p) ==
    [item |-> tbl[token_data.client_id], code |-> p.code, client |-> p.client_id]

\* A token request that deletes the code before it stores the token.
handle_token_request_delete_first(request_body, fault, drift) ==
    LET p == TokenParams(request_body)
        pre == TokenPrecheck(p)
        got == get_item(table, CodeKey(p.code))
    IN  IF pre # OK
        THEN Outcome(Return(pre), table, 0, 0, 0, "none", NoItem, NoItem)
        ELSE IF fault = "get_item"
        THEN Outcome(Return(_error_response("server_error", "Database error")),
                     table, 0, 0, 0, "get_item", NoItem, NoItem)
        ELSE IF "Item" \notin DOMAIN got
        THEN Outcome(Return(_error_response("invalid_grant", "Authorization code not found")),
                     table, 0, 0, 0, "none", NoItem, NoItem)
        ELSE IF TokenVerify(p, got.Item) # OK
        THEN Outcome(Return(TokenVerify(p, got.Item)), table, 0, 0, 0, "none", NoItem, NoItem)
        ELSE
        LET auth_data == got.Item
            access_token == token_urlsafe(nRand)
            token_data == TokenData(p, auth_data, access_token, now, drift)
            deleted == delete_item(table, CodeKey(p.code))
            stored == put_item(deleted, token_data)
        IN  IF fault = "delete_item"
            THEN Outcome(Return(_error_response("server_error", "Token generation error")),
                         table, 0, 1, drift, "delete_item", NoItem, NoItem)
            ELSE IF fault = "put_item"
            THEN Outcome(Return(_error_response("server_error", "Token generation error")),
                         deleted, 0, 1, drift, "put_item", NoItem, NoItem)
            ELSE Outcome(Return(TokenSuccess(access_token, auth_data)),
                         stored, 0, 1, drift, "none", NoItem,
                         Minted(stored, token_data, p))

handle_token_request(request_body, fault, drift) ==
    LET p == TokenParams(request_body)
        pre == TokenPrecheck(p)
        got == get_item(table, CodeKey(p.code))
    IN  IF pre # OK
        THEN Outcome(Return(pre), table, 0, 0, 0, "none", NoItem, NoItem)
        ELSE IF fault = "get_item"
        THEN Outcome(Return(_error_response("server_error", "Database error")),
                     table, 0, 0, 0, "get_item", NoItem, NoItem)
        ELSE IF "Item" \notin DOMAIN got
        THEN Outcome(Return(_error_response("invalid_grant", "Authorization code not found")),
                     table, 0, 0, 0, "none", NoItem, NoItem)
        ELSE IF TokenVerify(p, got.Item) # OK
        THEN Outcome(Return(TokenVerify(p, got.Item)), table, 0, 0, 0, "none", NoItem, NoItem)
        ELSE
        LET auth_data == got.Item
            access_token == token_urlsafe(nRand)
            token_data == TokenData(p, auth_data, access_token, now, drift)
            stored == put_item(table, token_data)
        IN  IF fault = "put_item"
            THEN Outcome(Return(_error_response("server_error", "Token generation error")),
                         table, 0, 1, drift, "put_item", NoItem, NoItem)
            ELSE IF fault = "delete_item"
            THEN Outcome(Return(_error_response("server_error", "Token generation error")),
                         stored, 0, 1, drift, "delete_item", NoItem,
                         Minted(stored, token_data, p))
            ELSE Outcome(Return(TokenSuccess(access_token, auth_data)),
                         delete_item(stored, CodeKey(p.code)), 0, 1, drift, "none", NoItem,
                         Minted(stored, token_data, p))

-----------------------------------------------------------------------------
(* MCPOAuthServer.handle_token_introspection *)

Inactive == [active |-> FALSE]

handle_token_introspection(request_body, fault) ==
    LET params == parse_qs(request_body)
        token == First(params, "token")
        got == get_item(table, TokenKey(token))
    IN  IF token = EMPTY
        THEN Outcome(Return(Inactive), table, 0, 0, 0, "none", NoItem, NoItem)
        ELSE IF fault = "get_item"
        THEN Outcome(Return(Inactive), table, 0, 0, 0, "get_item", NoItem, NoItem)
        ELSE IF "Item" \notin DOMAIN got
        THEN Outcome(Return(Inactive), table, 0, 0, 0, "none", NoItem, NoItem)
        ELSE
        LET token_data == got.Item
            expires_at == int(token_data.expires_at)
            created_at == int(token_data.created_at)
        IN  IF now > expires_at
            THEN Outcome(Return(Inactive), table, 0, 0, 0, "none", NoItem, NoItem)
            ELSE Outcome(Return([active |-> TRUE,
                                 client_id |-> token_data.client_id_original,
                                 scope |-> token_data.scope,
                                 exp |-> expires_at,
                                 iat |-> created_at]),
                         table, 0, 0, 0, "none", NoItem, NoItem)

-----------------------------------------------------------------------------
(* lambda_handler *)

STAGE == <<"/dev">>

\* if path.startswith('/dev'): path = path[4:] or '/'
StripStage(path) ==
    IF StartsWith(path, STAGE)
    THEN (IF Len(path) = 1 THEN <<"/">> ELSE Tail(path))
    ELSE path

\* queryStringParameters {name: value} become {name: [value]}.
FormatParams(query) == [n \in DOMAIN query |-> <<query[n]>>]

JsonHeaders == [ContentType |-> "application/json"]
CorsHeaders ==
    [ContentType |-> "application/json",
     AccessControlAllowOrigin |-> "*",
     AccessControlAllowMethods |-> "GET, POST, OPTIONS",
     AccessControlAllowHeaders |-> "Content-Type, Authorization"]

\* json.dumps(value), as the document it denotes.
json_dumps(value) == [json |-> value]

ServerError ==
    [statusCode |-> 500, headers |-> JsonHeaders,
     body |-> json_dumps(_error_response("server_error", "Internal server error"))]

NotFound ==
    [statusCode |-> 404, headers |-> JsonHeaders,
     body |-> json_dumps(_error_response("not_found", "Endpoint not found"))]

Routes ==
    {<<"GET", <<"/.well-known/oauth-authorization-server">> >>,
     <<"POST", <<"/register">> >>,
     <<"GET", <<"/authorize">> >>,
     <<"POST", <<"/token">> >>,
     <<"POST", <<"/introspect">> >>}

\* The method lambda_handler routes the event to, run to its outcome.
Route(ev, fault, drift) ==
    LET path == StripStage(ev.path)
        body == ev.body
    IN  IF path = <<"/.well-known/oauth-authorization-server">>
        THEN handle_authorization_server_metadata
        ELSE IF path = <<"/register">>
        THEN handle_dynamic_client_registration(body, fault, drift)
        ELSE IF path = <<"/authorize">>
        THEN handle_authorization_request(FormatParams(ev.queryStringParameters), fault, drift)
        ELSE IF path = <<"/token">>
        THEN handle_token_request(body, fault, drift)
        ELSE handle_token_introspection(body, fault)

\* The HTTP response lambda_handler builds from what the method did.
Respond(ev, res) ==
    IF res.kind = "raise"
    THEN ServerError
    ELSE IF StripStage(ev.path) = <<"/authorize">> /\ "statusCode" \in DOMAIN res.value
    THEN res.value
    ELSE IF "error" \in DOMAIN res.value
    THEN [statusCode |-> 400, headers |-> JsonHeaders, body |-> json_dumps(res.value)]
    ELSE [statusCode |-> 200, headers |-> CorsHeaders, body |-> json_dumps(res.value)]

\* lambda_handler(event, context): the outcome of the method, if one ran, and
\* the response.
lambda_handler(ev, fault, drift) ==
    IF ev.isBase64Encoded /\ Truthy(ev.body) /\ ~ev.body.utf8
    THEN \* base64.b64decode(body).decode('utf-8') raises
         [out |-> Outcome(NoResult, table, 0, 0, 0, "none", NoItem, NoItem),
          response |-> ServerError]
    ELSE IF <<ev.httpMethod, StripStage(ev.path)>> \notin Routes
    THEN [out |-> Outcome(NoResult, table, 0, 0, 0, "none", NoItem, NoItem),
          response |-> NotFound]
    ELSE LET out == Route(ev, fault, drift)
         IN [out |-> out, response |-> Respond(ev, out.result)]

-----------------------------------------------------------------------------
(* The requests of the model *)

URI_A == <<"https://client.example", "/cb">>
URI_B == <<"https://client.example", "/cb2">>
URI_C == <<"https://client.example", "/elsewhere">>
URI_LONG == URI_C \o <<"/cb">>
V1 == <<"verifier-1">>
V2 == <<"verifier-2">>
UNKNOWN == <<"unknown">>
AUTHORIZATION_CODE == <<"authorization_code">>

Drifts == {0, 1}
TickSteps == {CODE_TTL, TOKEN_TTL}

Event(method, path, query, body, isBase64Encoded) ==
    [httpMethod |-> method, path |-> path, queryStringParameters |-> query,
     body |-> body, isBase64Encoded |-> isBase64Encoded]

\* A dict of the parameters that are given (not blank).
Given(all) == [n \in {m \in DOMAIN all : all[m] # EMPTY} |-> all[n]]

RegisterBodies ==
    {NoBody, Body("text", << >>), Body("json_array", << >>), Json(<< >>),
     Json([redirect_uris |-> List(<< >>)]),
     Json([redirect_uris |-> List(<<URI_A, URI_B>>)]),
     Json([redirect_uris |-> Str(URI_LONG)])}

PkceInputs ==
    {<<S256Challenge(V1), <<"S256">> >>, <<S256Challenge(V1), <<"plain">> >>,
     <<S256Challenge(V1), EMPTY>>, <<EMPTY, <<"S256">> >>, <<EMPTY, EMPTY>>}

SCOPE == <<"mcp:read">>
StateInputs == {<<"xyz">>, EMPTY}

AuthorizeQueries ==
    {Given([client_id |-> c, redirect_uri |-> u, response_type |-> <<"code">>,
            scope |-> SCOPE, state |-> st,
            code_challenge |-> pk[1], code_challenge_method |-> pk[2]]) :
        c \in DOMAIN table \cup {UNKNOWN},
        u \in {URI_B, URI_C},
        pk \in PkceInputs,
        st \in StateInputs}

TokenForm(g, c, v, cl, u) ==
    Form(<< <<"grant_type", g>>, <<"code", c>>, <<"code_verifier", v>>,
            <<"client_id", cl>>, <<"redirect_uri", u>> >>)

KnownCodes == DOMAIN issued \cup {UNKNOWN}
KnownClients == {k \in DOMAIN table : IsClientKey(k)} \cup {UNKNOWN}

TokenBodies ==
    {TokenForm(AUTHORIZATION_CODE, c, v, cl, u) :
        c \in KnownCodes, v \in {V1, V2}, cl \in KnownClients, u \in {URI_A, URI_B}}
    \cup {TokenForm(AUTHORIZATION_CODE, m[1], m[2], m[3], m[4]) :
            m \in UNION {{<<EMPTY, V1, cl, URI_A>>, <<c, EMPTY, cl, URI_A>>,
                          <<c, V1, EMPTY, URI_A>>, <<c, V1, cl, EMPTY>>} :
                         c \in KnownCodes, cl \in KnownClients \ {UNKNOWN}}}
    \cup {TokenForm(<<"refresh_token">>, c, V1, cl, URI_A) :
            c \in KnownCodes, cl \in KnownClients \ {UNKNOWN}}
    \cup {TokenForm(<<"refresh_token">>, EMPTY, EMPTY, EMPTY, EMPTY),
          Form(<< <<"grant_type">> >>), NoBody}

IntrospectBodies ==
    {Form(<< <<"token", t>> >>) : t \in DOMAIN minted \cup {UNKNOWN, EMPTY}}
    \cup {NoBody, Body("text", << >>)}

-----------------------------------------------------------------------------
(* Actions *)

Idle == [pc |-> "idle"]

Init ==
    /\ table = << >>
    /\ now = 0
    /\ nUuid = 0
    /\ nRand = 0
    /\ ticks = 0
    /\ event = NoEvent
    /\ before = NoSnapshot
    /\ result = NoResult
    /\ response = NoResponse
    /\ storeError = "none"
    /\ issued = << >>
    /\ minted = << >>
    /\ procs = [p \in 1..MaxProcs |-> Idle]
    /\ call = NoCall
    /\ answer = NoAnswer
    /\ invoked = << >>
    /\ breaker = NewBreaker
    /\ clock = 0
    /\ claude_model_id = claude_models[1]
    /\ lastOp = NoOp

Extend(history, key, value) ==
    [k \in DOMAIN history \cup {key} |-> IF k = key THEN value ELSE history[k]]

\* One Lambda invocation, from the event to the response.
Invoke(ev, fault, drift) ==
    \E r \in {lambda_handler(ev, fault, drift)} :
    LET out == r.out
    IN  /\ nRand + out.rands <= MaxRand
        /\ out.elapsed > 0 => ticks < MaxTicks
        /\ event' = ev
        /\ before' = [table |-> table, now |-> now]
        /\ table' = out.table
        /\ result' = out.result
        /\ response' = r.response
        /\ storeError' = out.failed
        /\ nUuid' = nUuid + out.uuids
        /\ nRand' = nRand + out.rands
        /\ now' = now + out.elapsed
        /\ ticks' = IF out.elapsed > 0 THEN ticks + 1 ELSE ticks
        /\ issued' = IF out.code # NoItem
                     THEN Extend(issued, out.code.code, out.code) ELSE issued
        /\ minted' = IF out.token # NoItem
                     THEN Extend(minted, out.token.item.access_token, out.token) ELSE minted
        /\ UNCHANGED <<mcpVars, svcVars>>
        /\ UNCHANGED procs

Metadata ==
    /\ event = NoEvent
    /\ \E stage \in {EMPTY, STAGE} :
        Invoke(Event("GET", stage \o <<"/.well-known/oauth-authorization-server">>,
                     << >>, NoBody, FALSE), "none", 0)

RegisterWith(bodies, faults, drifts) ==
    /\ event = NoEvent
    /\ \E body \in bodies, fault \in faults, drift \in drifts :
        Invoke(Event("POST", <<"/register">>, << >>, body, FALSE), fault, drift)

Register == RegisterWith(RegisterBodies, {"none", "put_item"}, Drifts)

AuthorizeWith(queries, faults, drifts) ==
    /\ event = NoEvent
    /\ \E query \in queries, fault \in faults, drift \in drifts :
        Invoke(Event("GET", <<"/authorize">>, query, NoBody, FALSE), fault, drift)

Authorize == AuthorizeWith(AuthorizeQueries, {"none", "get_item", "put_item"}, Drifts)

Token ==
    /\ event = NoEvent
    /\ \E body \in TokenBodies, fault \in {"none", "get_item", "put_item", "delete_item"},
       drift \in Drifts :
        Invoke(Event("POST", <<"/token">>, << >>, body, FALSE), fault, drift)

Introspect ==
    /\ event = NoEvent
    /\ \E body \in IntrospectBodies, fault \in {"none", "get_item"},
       isBase64Encoded \in BOOLEAN :
        Invoke(Event("POST", <<"/introspect">>, << >>, body, isBase64Encoded), fault, 0)

\* A request lambda_handler cannot serve: a body that does not decode, or a
\* path and method that are no endpoint.
Unserved ==
    /\ event = NoEvent
    /\ \/ \E path \in {<<"/register">>, <<"/token">>, <<"/introspect">>} :
           Invoke(Event("POST", path, << >>, NotUtf8, TRUE), "none", 0)
       \/ \E method \in {"GET", "POST"}, path \in {<<"/">>, <<"/introspect">>, <<"/authorize">>} :
           /\ <<method, path>> \notin Routes
           /\ Invoke(Event(method, path, << >>, NoBody, FALSE), "none", 0)

\* The invocation in flight ends: its response has been delivered.
InvocationEnds ==
    /\ event # NoEvent
    /\ event' = NoEvent
    /\ before' = NoSnapshot
    /\ result' = NoResult
    /\ response' = NoResponse
    /\ storeError' = "none"
    /\ UNCHANGED <<mcpVars, svcVars>>
    /\ UNCHANGED <<table, now, nUuid, nRand, ticks, issued, minted, procs>>

\* Time passes between invocations.
Tick ==
    \E d \in TickSteps :
        /\ event = NoEvent
        /\ ticks < MaxTicks
        /\ now' = now + d
        /\ ticks' = ticks + 1
        /\ UNCHANGED <<mcpVars, svcVars>>
        /\ UNCHANGED <<table, nUuid, nRand, event, before, result, response,
                       storeError, issued, minted, procs>>

Next ==
    \/ Metadata
    \/ Register
    \/ Authorize
    \/ Token
    \/ Introspect
    \/ Unserved
    \/ InvocationEnds
    \/ Tick

Spec == Init /\ [][Next]_vars

-----------------------------------------------------------------------------
(* Concurrent invocations of handle_token_request.  Each is its own Lambda *)
(* invocation; the calls on the table are its atomic steps, and what it    *)
(* holds between them (the parameters, auth_data, the result) is local.    *)
(* The calls on the table succeed here; handle_token_request above has the *)
(* failing ones.                                                           *)

GoodRegistration == Json([redirect_uris |-> List(<<URI_A, URI_B>>)])

ConcAuthorizeQueries ==
    {Given([client_id |-> c, redirect_uri |-> URI_B, response_type |-> <<"code">>,
            scope |-> SCOPE, state |-> EMPTY,
            code_challenge |-> S256Challenge(V1),
            code_challenge_method |-> <<"S256">>]) :
        c \in {k \in DOMAIN table : IsClientKey(k)}}

ConcTokenBodies ==
    {TokenForm(AUTHORIZATION_CODE, c, v, cl, URI_B) :
        c \in DOMAIN issued, v \in {V1, V2}, cl \in KnownClients \ {UNKNOWN}}

Finished(proc, res) == [proc EXCEPT !.pc = "done", !.result = res]

\* Lines 160-182: the parameters and their checks.
TokenStart(i) ==
    /\ event = NoEvent
    /\ procs[i].pc = "idle"
    /\ \E body \in ConcTokenBodies :
         LET p == TokenParams(body)
             started == [pc |-> "get_item", body |-> body, p |-> p,
                         auth_data |-> NoItem, result |-> NoResult]
         IN procs' = [procs EXCEPT ![i] =
                        IF TokenPrecheck(p) # OK
                        THEN Finished(started, TokenPrecheck(p))
                        ELSE started]
    /\ UNCHANGED <<mcpVars, svcVars>>
    /\ UNCHANGED <<table, now, nUuid, nRand, ticks, event, before, result,
                   response, storeError, issued, minted>>

\* Lines 184-203: table.get_item and the checks of what it found.
TokenGet(i) ==
    /\ event = NoEvent
    /\ procs[i].pc = "get_item"
    /\ LET got == get_item(table, CodeKey(procs[i].p.code))
       IN procs' = [procs EXCEPT ![i] =
            IF "Item" \notin DOMAIN got
            THEN Finished(@, _error_response("invalid_grant", "Authorization code not found"))
            ELSE IF TokenVerify(@.p, got.Item) # OK
            THEN Finished(@, TokenVerify(@.p, got.Item))
            ELSE [@ EXCEPT !.pc = "put_item", !.auth_data = got.Item]]
    /\ UNCHANGED <<mcpVars, svcVars>>
    /\ UNCHANGED <<table, now, nUuid, nRand, ticks, event, before, result,
                   response, storeError, issued, minted>>

\* Lines 205-218: the access token and table.put_item.
TokenPut(i) ==
    /\ event = NoEvent
    /\ procs[i].pc = "put_item"
    /\ LET access_token == token_urlsafe(nRand)
           token_data == TokenData(procs[i].p, procs[i].auth_data, access_token, now, 0)
           stored == put_item(table, token_data)
       IN /\ nRand' = nRand + 1
          /\ procs' = [procs EXCEPT ![i] =
                 [pc |-> "delete_item", body |-> @.body, p |-> @.p,
                  auth_data |-> @.auth_data, result |-> NoResult,
                  access_token |-> access_token]]
          /\ table' = stored
          /\ minted' = Extend(minted, access_token,
                              Minted(stored, token_data, procs[i].p))
    /\ UNCHANGED <<mcpVars, svcVars>>
    /\ UNCHANGED <<now, nUuid, ticks, event, before, result, response, storeError, issued>>

\* Lines 221-229: table.delete_item and the token response.
TokenDelete(i) ==
    /\ event = NoEvent
    /\ procs[i].pc = "delete_item"
    /\ procs' = [procs EXCEPT ![i] =
           Finished(@, TokenSuccess(@.access_token, @.auth_data))]
    /\ table' = delete_item(table, CodeKey(procs[i].p.code))
    /\ UNCHANGED <<mcpVars, svcVars>>
    /\ UNCHANGED <<now, nUuid, nRand, ticks, event, before, result, response,
                   storeError, issued, minted>>

NextConc ==
    \/ RegisterWith({GoodRegistration}, {"none"}, {0})
    \/ AuthorizeWith(ConcAuthorizeQueries, {"none"}, {0})
    \/ InvocationEnds
    \/ Tick
    \/ \E i \in 1..MaxProcs : TokenStart(i)
    \/ \E i \in 1..MaxProcs : TokenGet(i)
    \/ \E i \in 1..MaxProcs : TokenPut(i)
    \/ \E i \in 1..MaxProcs : TokenDelete(i)

SpecConc == Init /\ [][NextConc]_vars

-----------------------------------------------------------------------------
(* Reading the invocation in flight *)

OnCall(method, path) ==
    /\ event.httpMethod = method
    /\ StripStage(event.path) = path

OnAuthorize == OnCall("GET", <<"/authorize">>)
OnToken == OnCall("POST", <<"/token">>)
OnIntrospect == OnCall("POST", <<"/introspect">>)

\* A parameter of the authorize request in flight.
Param(name) == First(FormatParams(event.queryStringParameters), name)

\* The form parameters of the token request in flight.
TokenP == TokenParams(event.body)

\* The token presented by the introspect request in flight.
IntrospectedToken == First(parse_qs(event.body), "token")

Returned == result.kind = "return"
ReturnedError(code) ==
    /\ Returned
    /\ "error" \in DOMAIN result.value
    /\ result.value.error = code
ReturnedToken == Returned /\ "access_token" \in DOMAIN result.value

HttpError(status, code) ==
    /\ response.statusCode = status
    /\ response.body = json_dumps(_error_response(code, response.body.json.error_description))
    /\ response.body.json.error = code

CodeKeys(tbl) == {k \in DOMAIN tbl : IsCodeKey(k)}
TokenKeys(tbl) == {k \in DOMAIN tbl : IsTokenKey(k)}
ClientKeys(tbl) == {k \in DOMAIN tbl : IsClientKey(k)}

\* The access tokens stored for a code.
TokensOf(code) == {t \in DOMAIN minted : minted[t].code = code}

\* A token request with grant_type=authorization_code and code, redirect_uri,
\* client_id and code_verifier all present.
Complete(p) ==
    /\ p.grant_type = AUTHORIZATION_CODE
    /\ p.code # EMPTY /\ p.redirect_uri # EMPTY
    /\ p.client_id # EMPTY /\ p.code_verifier # EMPTY

\* The request presents the verifier of the code's challenge and the
\* client_id and redirect_uri the code is bound to.
Matches(p, code_item) ==
    /\ code_item.code_challenge = S256Challenge(p.code_verifier)
    /\ p.client_id = code_item.client_id_original
    /\ p.redirect_uri = code_item.redirect_uri

-----------------------------------------------------------------------------
(* Claims *)

Redeemed(i) ==
    /\ procs[i].pc = "done"
    /\ "access_token" \in DOMAIN procs[i].result

\* C1: of the concurrent invocations of handle_token_request that present
\* the same stored authorization code with the right verifier, client_id and
\* redirect_uri, at most one returns an access token; every other one
\* returns an error and has stored no access token.
C1_AtMostOneRedemption ==
    \A i, j \in 1..MaxProcs :
        (i # j /\ Redeemed(i) /\ procs[j].pc = "done"
            /\ procs[j].p.code = procs[i].p.code)
        => /\ "error" \in DOMAIN procs[j].result
           /\ TokensOf(procs[i].p.code) = {procs[i].result.access_token}

\* C2: with token requests one after another, a request that presents a
\* stored code with the verifier of its challenge and the client_id and
\* redirect_uri it is bound to gets an access token and deletes the code
\* record; every later complete request with that code, whatever its
\* verifier, fails with invalid_grant (the store answering).
C2_RedeemedExactlyOnce ==
    (OnToken /\ Complete(TokenP) /\ storeError = "none") =>
        LET key == CodeKey(TokenP.code)
        IN  /\ (key \in DOMAIN before.table /\ Matches(TokenP, before.table[key]))
                => /\ ReturnedToken
                   /\ response.statusCode = 200
                   /\ key \notin DOMAIN table
            /\ (TokenP.code \in DOMAIN issued /\ key \notin DOMAIN before.table)
                => /\ ReturnedError("invalid_grant")
                   /\ HttpError(400, "invalid_grant")
                   /\ table = before.table

\* A second request with a code already redeemed, verifier and all as in the
\* first, is refused.
C2_Witness ==
    /\ OnToken /\ Complete(TokenP)
    /\ TokenP.code \in DOMAIN issued
    /\ CodeKey(TokenP.code) \notin DOMAIN before.table
    /\ TokensOf(TokenP.code) # {}
    /\ Matches(TokenP, issued[TokenP.code])
    /\ ReturnedError("invalid_grant")

\* C3: a token request that presents a code whose expires_at is earlier than
\* the current time is rejected and stores no access token (the store
\* answering).
C3_ExpiredCodeRejected ==
    (OnToken /\ storeError = "none" /\ CodeKey(TokenP.code) \in DOMAIN before.table
        /\ int(before.table[CodeKey(TokenP.code)].expires_at) < before.now)
    => /\ ~ReturnedToken
       /\ TokenKeys(table) = TokenKeys(before.table)

C5_CodesCarryS256 ==
    /\ \A k \in CodeKeys(table) :
          /\ table[k].code_challenge_method = <<"S256">>
          /\ table[k].code_challenge # EMPTY
    /\ \A c \in DOMAIN issued :
          /\ issued[c].code_challenge_method = <<"S256">>
          /\ issued[c].code_challenge # EMPTY

C5_Witness ==
    \E k \in CodeKeys(table) : table[k].code_challenge = S256Challenge(V1)

\* The record's redirect_uri is one of the URIs registered for its client:
\* an element of the registered list or the one registered string.
BoundToRegistration(tbl, code_item) ==
    /\ code_item.client_id_original \in ClientKeys(tbl)
    /\ LET uris == tbl[code_item.client_id_original].redirect_uris
       IN  IF "list" \in DOMAIN uris
           THEN \E i \in DOMAIN uris.list : uris.list[i] = code_item.redirect_uri
           ELSE uris.str = code_item.redirect_uri

\* C6: authorize answers 302 and stores a code only when redirect_uri is one
\* of the redirect_uris stored for client_id; the Location of the 302 starts
\* with that URI; and every code record pairs a registered client with one
\* of its registered URIs.
C6_CodeOnlyForRegisteredUri ==
    /\ OnAuthorize =>
          /\ (response.statusCode = 302 \/ CodeKeys(table) # CodeKeys(before.table))
                => /\ response.statusCode = 302
                   /\ \E k \in CodeKeys(table) \ CodeKeys(before.table) :
                         /\ table[k].client_id_original = Param("client_id")
                         /\ table[k].redirect_uri = Param("redirect_uri")
                         /\ BoundToRegistration(before.table, table[k])
                   /\ StartsWith(response.headers.Location, Param("redirect_uri"))
    /\ \A k \in CodeKeys(table) : BoundToRegistration(table, table[k])

\* C7: authorize fails with invalid_client (400) and writes nothing for
\* every client_id that is not the key of a stored client registration,
\* the keys of code and token records included (the store answering).
C7_UnknownClientInvalidClient ==
    (OnAuthorize /\ storeError = "none"
        /\ Param("client_id") \notin ClientKeys(before.table))
    => /\ ReturnedError("invalid_client")
       /\ HttpError(400, "invalid_client")
       /\ table = before.table

\* C8: a complete token request gets an access token only if the code record
\* exists, the S256 challenge of its verifier is the stored challenge, and
\* its client_id and redirect_uri are those bound to the code; if one of
\* these fails, the result is invalid_grant (the store answering).  Every
\* stored access token carries the client_id the code was issued to.
C8_TokenOnlyForBoundRequest ==
    /\ OnToken =>
          LET key == CodeKey(TokenP.code)
              bound == /\ key \in DOMAIN before.table
                       /\ Matches(TokenP, before.table[key])
          IN  /\ ReturnedToken => Complete(TokenP) /\ bound
              /\ (Complete(TokenP) /\ storeError = "none" /\ ~bound)
                    => /\ ReturnedError("invalid_grant")
                       /\ table = before.table
    /\ \A t \in DOMAIN minted :
          /\ minted[t].code \in DOMAIN issued
          /\ minted[t].item.client_id_original
                = issued[minted[t].code].client_id_original
    /\ \A k \in TokenKeys(table) :
          \E t \in DOMAIN minted : k = TokenKey(t) /\ table[k] = minted[t].item

\* The right verifier from a client the code is not bound to is refused.
C8_Witness ==
    /\ OnToken /\ Complete(TokenP)
    /\ CodeKey(TokenP.code) \in DOMAIN before.table
    /\ before.table[CodeKey(TokenP.code)].code_challenge
          = S256Challenge(TokenP.code_verifier)
    /\ TokenP.client_id # before.table[CodeKey(TokenP.code)].client_id_original
    /\ ReturnedError("invalid_grant")

\* The access-token record introspection reads for a token, if it is live.
Live(token) ==
    /\ TokenKey(token) \in DOMAIN before.table
    /\ before.now <= int(before.table[TokenKey(token)].expires_at)

\* C9: POST /introspect answers 200; handle_token_introspection returns
\* active=true exactly when a record exists for the presented token, the
\* current time is not greater than its expires_at and the lookup succeeds,
\* and exactly {"active": false} in every other case.
C9_IntrospectNeverErrors ==
    OnIntrospect =>
        /\ response.statusCode = 200
        /\ Returned
        /\ result.value.active
              <=> (storeError = "none" /\ Live(IntrospectedToken))
        /\ ~result.value.active => result.value = Inactive

\* C10: a token that introspects as active is reported with the client_id
\* that redeemed the code, the scope authorize stored with that code (the
\* scope of the authorize request), exp = expires_at and iat = created_at of
\* its record, and the record is the one stored when the token was issued.
C10_IntrospectReportsIssuedRecord ==
    /\ \A t \in DOMAIN minted :
          /\ TokenKey(t) \in DOMAIN table
          /\ table[TokenKey(t)] = minted[t].item
    /\ (OnAuthorize /\ response.statusCode = 302) =>
          \A k \in CodeKeys(table) \ CodeKeys(before.table) :
             table[k].scope = Param("scope")
    /\ (OnIntrospect /\ Returned /\ result.value.active) =>
          LET t == IntrospectedToken
          IN  /\ t \in DOMAIN minted
              /\ result.value.client_id = minted[t].client
              /\ result.value.client_id = issued[minted[t].code].client_id_original
              /\ result.value.scope = issued[minted[t].code].scope
              /\ result.value.exp = int(minted[t].item.expires_at)
              /\ result.value.iat = int(minted[t].item.created_at)
              /\ response.body = json_dumps(result.value)

C10_Witness ==
    /\ OnIntrospect /\ Returned
    /\ result.value.active
    /\ result.value.scope = SCOPE
    /\ result.value.exp > result.value.iat

OnRegister == OnCall("POST", <<"/register">>)

\* The registration request in flight names no redirect_uris, or an empty
\* value.
NoRedirectUris ==
    \/ event.body.kind = "json_array"
    \/ /\ event.body.kind = "json"
       /\ Falsy(Get(event.body.value, "redirect_uris", List(<< >>)))

RegisteredNow == Returned /\ "client_id" \in DOMAIN result.value

\* C11: register (body not base64-encoded) fails with invalid_request when
\* the body is not parseable JSON and with invalid_redirect_uri when it is
\* JSON without redirect_uris or with an empty one; neither writes to the
\* table, and the table changes only when register succeeds.
C11_RegisterErrors ==
    (OnRegister /\ ~event.isBase64Encoded) =>
        /\ event.body.kind \notin {"json", "json_array"}
              => /\ ReturnedError("invalid_request")
                 /\ HttpError(400, "invalid_request")
                 /\ table = before.table
        /\ NoRedirectUris
              => /\ ReturnedError("invalid_redirect_uri")
                 /\ HttpError(400, "invalid_redirect_uri")
                 /\ table = before.table
        /\ table # before.table
              => RegisteredNow /\ response.statusCode = 200

\* The keys at which the invocation in flight changed the table.
ChangedKeys ==
    {k \in DOMAIN table \cup DOMAIN before.table :
        \/ k \notin DOMAIN table
        \/ k \notin DOMAIN before.table
        \/ table[k] # before.table[k]}

\* C12: a successful register returns a client_id under which nothing was
\* stored before; no invocation modifies or deletes a stored client
\* registration (so all client_ids returned so far are still stored and
\* differ from a new one); authorize and token change only keys prefixed
\* auth_code_ or access_token_.
C12_ClientIdUniqueAndImmutable ==
    /\ (OnRegister /\ RegisteredNow)
          => /\ result.value.client_id \notin DOMAIN before.table
             /\ result.value.client_id \in ClientKeys(table)
             /\ table[result.value.client_id].client_id = result.value.client_id
    /\ event # NoEvent
          => \A k \in ClientKeys(before.table) :
                k \in DOMAIN table /\ table[k] = before.table[k]
    /\ (OnAuthorize \/ OnToken)
          => \A k \in ChangedKeys : IsCodeKey(k) \/ IsTokenKey(k)

\* A second client registers while the first registration is stored.
C12_Witness ==
    /\ OnRegister /\ RegisteredNow
    /\ ClientKeys(before.table) # {}
    /\ ClientKeys(table) = ClientKeys(before.table) \cup {result.value.client_id}

-----------------------------------------------------------------------------
(* The JIRA MCP server: jira_client/client.py, lambda_mcp_server.py,       *)
(* deployment/fixed_lambda_handler.py and mcp_server/server.py.            *)
(*                                                                         *)
(* JIRA behaves in one of two ways during a call: its operations succeed   *)
(* (up) or raise.  Constructing the JiraClient succeeds (init) or raises.  *)
(* A formatted text is its format string and the values formatted in.      *)

Raised(message) == [kind |-> "raise", message |-> message]

Jira(init, up) == [init |-> init, up |-> up]
JiraBehaviours == {Jira(i, u) : i, u \in BOOLEAN}

BACKEND_ERROR == "HTTPError: 503 Service Unavailable"
INIT_ERROR == "Failed to initialize JIRA client"
ATTRIBUTE_ERROR == "object has no attribute 'get'"
JIRA_URL == "https://jira.example"

IsDict(value) == "list" \notin DOMAIN value

Text(format, args) == [format |-> format, args |-> args]
Content(text) == [content |-> << [type |-> "text", text |-> text] >>]

\* An operation invoked on the JiraClient, a dispatch to JiraMCPServer.
JiraOp(name) == [layer |-> "jira", name |-> name]
Dispatch(name) == [layer |-> "tool", name |-> name]

(* JiraClient *)

test_connection(up) ==
    IF up
    THEN Return([status |-> "success", server_info |-> "server_info", url |-> JIRA_URL])
    ELSE Return([status |-> "error", error |-> BACKEND_ERROR, url |-> JIRA_URL])

PROJECTS == << [key |-> "DP", name |-> "Demo Project"] >>

\* A get_projects that answers a failure with an error mapping.
get_projects_error_mapping(up) ==
    IF up THEN Return(PROJECTS) ELSE Return([error |-> BACKEND_ERROR])

get_projects(up) ==
    IF up THEN Return(PROJECTS) ELSE Raised(BACKEND_ERROR)

ISSUE == [key |-> "DP-1", fields |-> [summary |-> "First issue"]]

search_issues(up, jql, max_results) ==
    IF up
    THEN Return([total |-> 1, issues |-> <<ISSUE>>])
    ELSE Raised(BACKEND_ERROR)

get_issue(up, issue_key) ==
    IF up THEN Return(ISSUE) ELSE Raised(BACKEND_ERROR)

\* Python's truth value of an argument: None and '' are false.
Given1(value) == value \notin {None, ""}

issue_data(project_key, summary, description, issue_type, priority) ==
    [n \in {"project", "summary", "issuetype"}
            \cup (IF Given1(description) THEN {"description"} ELSE {})
            \cup (IF Given1(priority) THEN {"priority"} ELSE {}) |->
        CASE n = "project" -> project_key
          [] n = "summary" -> summary
          [] n = "issuetype" -> issue_type
          [] n = "description" -> description
          [] n = "priority" -> priority]

create_issue(up, project_key, summary, description, issue_type, priority) ==
    IF up
    THEN Return([key |-> "DP-2", id |-> "10002", self |-> JIRA_URL])
    ELSE Return([error |-> BACKEND_ERROR,
                 issue_data |-> issue_data(project_key, summary, description,
                                           issue_type, priority)])

add_comment(up, issue_key, comment) ==
    IF up
    THEN Return([success |-> TRUE, comment_id |-> "1", issue_key |-> issue_key,
                 comment |-> comment, created |-> "today", author |-> "Unknown"])
    ELSE Return([error |-> BACKEND_ERROR, issue_key |-> issue_key,
                 comment |-> comment])

(* JiraMCPServer *)

TOOLS ==
    <<"jira_health_check", "jira_list_projects", "jira_create_issue",
      "jira_search_issues", "jira_get_issue", "jira_add_comment">>

list_tools == [tools |-> TOOLS]

\* What call_tool returns and the JiraClient operations it has invoked.
Called(res, ops) == [result |-> res, ops |-> ops]

\* An outer except that does not say what went wrong.
ErrorCalling_silent(tool_name, e, ops) ==
    Called(Content(Text("Error calling {tool_name}", <<tool_name>>)), ops)

\* The outer except of call_tool.
ErrorCalling(tool_name, e, ops) ==
    Called(Content(Text("Error calling {tool_name}: {e}", <<tool_name, e>>)), ops)

\* A tool that reports what the operation returned, or lets it raise.
Reporting(tool_name, format, op, outcome) ==
    IF outcome.kind = "raise"
    THEN ErrorCalling(tool_name, outcome.message, <<JiraOp(op)>>)
    ELSE Called(Content(Text(format, <<json_dumps(outcome.value)>>)), <<JiraOp(op)>>)

call_tool(tool_name, arguments, jira) ==
    IF ~jira.init
    THEN ErrorCalling(tool_name, INIT_ERROR, << >>)
    ELSE IF tool_name = "jira_health_check"
    THEN Reporting(tool_name, "JIRA Health Check: {result}", "test_connection",
                   test_connection(jira.up))
    ELSE IF tool_name = "jira_list_projects"
    THEN Reporting(tool_name, "JIRA Projects: {result}", "get_projects",
                   get_projects(jira.up))
    ELSE IF tool_name \notin {"jira_create_issue", "jira_search_issues",
                              "jira_get_issue", "jira_add_comment"}
    THEN Called(Content(Text("Unknown tool: {tool_name}", <<tool_name>>)), << >>)
    ELSE IF ~IsDict(arguments)
    THEN \* arguments.get: AttributeError
         ErrorCalling(tool_name, ATTRIBUTE_ERROR, << >>)
    ELSE IF tool_name = "jira_create_issue"
    THEN LET r == create_issue(jira.up,
                               Get(arguments, "project_key", None),
                               Get(arguments, "summary", None),
                               Get(arguments, "description", ""),
                               Get(arguments, "issue_type", "Task"),
                               Get(arguments, "priority", None)).value
         IN  IF "error" \in DOMAIN r
             THEN Called(Content(Text("Error creating JIRA Issue: {error} Issue data attempted: {issue_data}",
                                      <<r.error, json_dumps(r.issue_data)>>)),
                         <<JiraOp("create_issue")>>)
             ELSE Called(Content(Text("Created JIRA Issue Successfully! {result}",
                                      <<json_dumps(r)>>)),
                         <<JiraOp("create_issue")>>)
    ELSE IF tool_name = "jira_search_issues"
    THEN Reporting(tool_name, "JIRA Search Results: {result}", "search_issues",
                   search_issues(jira.up, Get(arguments, "jql", None),
                                 Get(arguments, "max_results", 10)))
    ELSE IF tool_name = "jira_get_issue"
    THEN Reporting(tool_name, "JIRA Issue Details: {result}", "get_issue",
                   get_issue(jira.up, Get(arguments, "issue_key", None)))
    ELSE LET issue_key == Get(arguments, "issue_key", None)
             r == add_comment(jira.up, issue_key, Get(arguments, "comment", None)).value
         IN  IF Given1(Get(r, "error", None))
             THEN Called(Content(Text("Error adding comment to JIRA Issue {issue_key}: {error}",
                                      <<issue_key, r.error>>)),
                         <<JiraOp("add_comment")>>)
             ELSE Called(Content(Text("Comment added successfully to JIRA Issue {issue_key}! {result}",
                                      <<issue_key, json_dumps(r)>>)),
                         <<JiraOp("add_comment")>>)

(* fixed_lambda_handler.py *)

GatewayHeaders ==
    [ContentType |-> "application/json", AccessControlAllowOrigin |-> "*"]

GatewayResponse(status, body) ==
    [statusCode |-> status, headers |-> GatewayHeaders, body |-> json_dumps(body)]

\* What a handler of the gateway did: the response it returned (or that it
\* raised) and what it invoked.
Handled(res, inv) == [outcome |-> res, invoked |-> inv]

\* A health check without its own except clause.
handle_health_check_unguarded(jira) ==
    IF ~jira.init
    THEN [outcome |-> Raised(INIT_ERROR), invoked |-> << >>]
    ELSE [outcome |-> Return([statusCode |-> 200, headers |-> GatewayHeaders,
                              body |-> json_dumps([status |-> "healthy"])]),
          invoked |-> <<JiraOp("test_connection")>>]

handle_health_check(jira) ==
    IF ~jira.init
    THEN Handled(Return(GatewayResponse(500, [status |-> "unhealthy",
                                               error |-> INIT_ERROR])), << >>)
    ELSE Handled(Return(GatewayResponse(200,
                    [status |-> "healthy",
                     message |-> "Fixed JIRA MCP Server is running",
                     mode |-> "fixed_lambda_server",
                     health_check |-> test_connection(jira.up).value])),
                 <<JiraOp("test_connection")>>)

handle_protected_resource_metadata ==
    Handled(Return(GatewayResponse(200,
                [scopes_supported |-> <<"mcp:read", "mcp:write">>,
                 bearer_methods_supported |-> <<"header">>])), << >>)

BEARER == <<"Bearer ">>

\* A handler that takes every request to carry a Bearer token.
AuthHeader_assumed(headers) == BEARER

\* headers.get('Authorization') or headers.get('authorization', '')
AuthHeader(headers) ==
    IF Get(headers, "Authorization", EMPTY) # EMPTY
    THEN headers["Authorization"]
    ELSE Get(headers, "authorization", EMPTY)

Unauthorized ==
    GatewayResponse(401,
        [error |-> "unauthorized",
         error_description |-> "Valid OAuth Bearer token required for MCP endpoints"])

\* An error envelope that always carries the default id.
JsonRpcError_default_id(id, code, message) ==
    [jsonrpc |-> "2.0", id |-> "1", error |-> [code |-> code, message |-> message]]

\* An error reported in the result member.
JsonRpcError_as_result(id, code, message) ==
    [jsonrpc |-> "2.0", id |-> id, result |-> [code |-> code, message |-> message]]

JsonRpcError(id, code, message) ==
    [jsonrpc |-> "2.0", id |-> id, error |-> [code |-> code, message |-> message]]

JsonRpcResult(id, res) == [jsonrpc |-> "2.0", id |-> id, result |-> res]

METHOD_NOT_FOUND == -32601
INTERNAL_ERROR == -32603

\* json.loads(body) succeeds and gives a dict.
IsJsonObject(body) == body.kind = "json"

handle_mcp_request(ev, jira) ==
    IF ~StartsWith(AuthHeader(ev.headers), BEARER)
    THEN Handled(Return(Unauthorized), << >>)
    ELSE IF ev.body.kind \in {"none", "json_array"}
    THEN \* request_data.get raises, and again in the except block
         Handled(Raised(ATTRIBUTE_ERROR), << >>)
    ELSE IF ~IsJsonObject(ev.body)
    THEN \* json.loads raises before request_data is bound
         Handled(Return(GatewayResponse(500,
                    JsonRpcError("1", INTERNAL_ERROR, "Internal error: {e}"))), << >>)
    ELSE
    LET request_data == ev.body.value
        id == Get(request_data, "id", None)
        method == Get(request_data, "method", "")
    IN  IF method = "tools/list"
        THEN Handled(Return(GatewayResponse(200, JsonRpcResult(id, list_tools))),
                     <<Dispatch("list_tools")>>)
        ELSE IF method = "tools/call"
        THEN LET params == Get(request_data, "params", << >>)
             IN  IF ~IsDict(params)
                 THEN \* params.get: AttributeError; request_data.get('id', 1)
                      Handled(Return(GatewayResponse(500,
                                 JsonRpcError(Get(request_data, "id", "1"),
                                              INTERNAL_ERROR, "Internal error: {e}"))),
                              << >>)
                 ELSE LET called == call_tool(Get(params, "name", ""),
                                              Get(params, "arguments", << >>), jira)
                      IN  Handled(Return(GatewayResponse(200,
                                     JsonRpcResult(id, called.result))),
                                  <<Dispatch("call_tool")>> \o called.ops)
        ELSE Handled(Return(GatewayResponse(400,
                        JsonRpcError(id, METHOD_NOT_FOUND, "Method not found: {method}"))),
                     << >>)

GatewayNotFound ==
    [statusCode |-> 404, headers |-> GatewayHeaders,
     body |-> json_dumps([message |-> "Not Found"])]

GatewayServerError ==
    GatewayResponse(500, [error |-> "internal_server_error",
                          error_description |-> "Server error: {e}"])

\* A router that takes every JSON object for an MCP request.
IsMcpBody_any_object(body) == Truthy(body) /\ IsJsonObject(body)

\* The body of POST / is an MCP request: it parses to a dict whose jsonrpc
\* is "2.0" (anything else, an exception included, is not).
IsMcpBody(body) ==
    /\ Truthy(body)
    /\ IsJsonObject(body)
    /\ Get(body.value, "jsonrpc", None) = "2.0"

GatewayRoute(ev, jira) ==
    LET path == StripStage(ev.path)
    IN  IF path = <<"/health">> /\ ev.httpMethod = "GET"
        THEN handle_health_check(jira)
        ELSE IF path = <<"/.well-known/oauth-protected-resource">> /\ ev.httpMethod = "GET"
        THEN handle_protected_resource_metadata
        ELSE IF path = <<"/mcp">> /\ ev.httpMethod = "POST"
        THEN handle_mcp_request(ev, jira)
        ELSE IF path = <<"/">> /\ ev.httpMethod = "POST"
        THEN IF IsMcpBody(ev.body)
             THEN handle_mcp_request(ev, jira)
             ELSE handle_health_check(jira)
        ELSE Handled(Return(GatewayNotFound), << >>)

\* fixed_lambda_handler.lambda_handler: an exception of a handler becomes
\* the 500 of the outer except.
gateway_lambda_handler(ev, jira) ==
    LET handled == GatewayRoute(ev, jira)
    IN  IF handled.outcome.kind = "raise"
        THEN Handled(Return(GatewayServerError), handled.invoked)
        ELSE handled

(* mcp_server/server.py and mcp_server/handlers/jira_handlers.py.  An      *)
(* MCPRequest has passed validation: id, method and params (a dict, or     *)
(* << >> for None and {}).  The handlers share the JiraClient constructed  *)
(* at import.                                                              *)

INVALID_PARAMS == -32602
TOOL_NOT_FOUND == -404
RESOURCE_NOT_FOUND == -404

\* MCPError(code, message).dict()
MCPError(code, message) == [code |-> code, message |-> message, data |-> None]

\* MCPResponse(...).dict(exclude_none=True)
MCPResult(id, res) == [jsonrpc |-> "2.0", id |-> id, result |-> res]
MCPFailure(id, code, message) ==
    [jsonrpc |-> "2.0", id |-> id, error |-> MCPError(code, message)]

\* What a method of MCPServer returned and the JiraClient operations it has
\* invoked.
Processed(res, ops) == [response |-> res, ops |-> ops]

MCPRequest(id, method, params) == [id |-> id, method |-> method, params |-> params]

\* request.params is not None and not {} (both are written << >>).
HasParams(request) == request.params # << >>

initialize(request) ==
    Processed(MCPResult(request.id, [serverInfo |-> "jira-mcp-server"]), << >>)

\* JiraResourceHandler.list_projects and list_issues; a failing handler is
\* logged and skipped.
list_resources(request, up) ==
    Processed(MCPResult(request.id,
                  [resources |-> IF up
                                 THEN <<"jira://projects/DP", "jira://issues/DP-1">>
                                 ELSE << >>]),
              <<JiraOp("get_projects"), JiraOp("search_issues")>>)

\* A URI is <<prefix>> or <<prefix, "/", key>>.
PROJECTS_URI == "jira://projects"
ISSUES_URI == "jira://issues"

\* uri.split('/')[-1]
LastPart(uri) ==
    IF Len(uri) = 3 THEN uri[3]
    ELSE IF uri[1] = PROJECTS_URI THEN "projects"
    ELSE IF uri[1] = ISSUES_URI THEN "issues"
    ELSE "other"

read_resource(request, up) ==
    IF ~HasParams(request) \/ "uri" \notin DOMAIN request.params
    THEN Processed(MCPFailure(request.id, INVALID_PARAMS, "Missing 'uri' parameter"), << >>)
    ELSE
    LET uri == request.params.uri
        key == LastPart(uri)
    IN  IF uri[1] = PROJECTS_URI
        THEN IF key = ""
             THEN Processed(MCPFailure(request.id, INTERNAL_ERROR, "Invalid project URI"), << >>)
             ELSE IF ~up \/ \A i \in DOMAIN PROJECTS : PROJECTS[i].key # key
             THEN Processed(MCPFailure(request.id, INTERNAL_ERROR,
                                       "Failed to read project {project_key}: {e}"),
                            <<JiraOp("get_projects")>>)
             ELSE Processed(MCPResult(request.id, [contents |-> <<uri>>]),
                            <<JiraOp("get_projects")>>)
        ELSE IF uri[1] = ISSUES_URI
        THEN IF key = ""
             THEN Processed(MCPFailure(request.id, INTERNAL_ERROR, "Invalid issue URI"), << >>)
             ELSE IF ~up
             THEN Processed(MCPFailure(request.id, INTERNAL_ERROR,
                                       "Failed to read issue {issue_key}: {e}"),
                            <<JiraOp("get_issue")>>)
             ELSE Processed(MCPResult(request.id, [contents |-> <<uri>>]),
                            <<JiraOp("get_issue")>>)
        ELSE Processed(MCPFailure(request.id, RESOURCE_NOT_FOUND,
                                  "Resource {uri} not found"), << >>)

\* JiraToolHandler.list_tools
MCP_TOOLS == <<"search_issues", "get_projects">>

mcp_list_tools(request) ==
    Processed(MCPResult(request.id, [tools |-> MCP_TOOLS]), << >>)

\* Handlers registered for a name that the catalog does not list.
CallHandlers_beyond_catalog == {"search_issues", "get_projects", "nonexistent_tool"}

\* The keys of tool_handlers that end in _call, without the suffix.
CallHandlers == {"search_issues", "get_projects"}

mcp_call_tool(request, up) ==
    IF ~HasParams(request) \/ "name" \notin DOMAIN request.params
    THEN Processed(MCPFailure(request.id, INVALID_PARAMS, "Missing 'name' parameter"), << >>)
    ELSE
    LET tool_name == request.params.name
        arguments == Get(request.params, "arguments", << >>)
    IN  IF tool_name \notin CallHandlers
        THEN Processed(MCPFailure(request.id, TOOL_NOT_FOUND, "Tool {tool_name} not found"),
                       << >>)
        ELSE IF tool_name = "search_issues"
        THEN IF ~IsDict(arguments)
             THEN Processed(MCPFailure(request.id, INTERNAL_ERROR, ATTRIBUTE_ERROR), << >>)
             ELSE IF ~Given1(Get(arguments, "jql", ""))
             THEN Processed(MCPFailure(request.id, INTERNAL_ERROR, "JQL query is required"),
                            << >>)
             ELSE IF search_issues(up, arguments.jql, Get(arguments, "maxResults", 20)).kind = "raise"
             THEN Processed(MCPFailure(request.id, INTERNAL_ERROR,
                                       "Failed to search issues: {e}"),
                            <<JiraOp("search_issues")>>)
             ELSE Processed(MCPResult(request.id,
                                Content(Text("Found {total} issues matching query: {jql}",
                                             <<arguments.jql>>))),
                            <<JiraOp("search_issues")>>)
        ELSE IF get_projects(up).kind = "raise"
             THEN Processed(MCPFailure(request.id, INTERNAL_ERROR,
                                       "Failed to get projects: {e}"),
                            <<JiraOp("get_projects")>>)
             ELSE Processed(MCPResult(request.id,
                                Content(Text("Found {n} JIRA projects", << >>))),
                            <<JiraOp("get_projects")>>)

process_request(request, up) ==
    IF request.method = "resources/list" THEN list_resources(request, up)
    ELSE IF request.method = "resources/read" THEN read_resource(request, up)
    ELSE IF request.method = "tools/list" THEN mcp_list_tools(request)
    ELSE IF request.method = "tools/call" THEN mcp_call_tool(request, up)
    ELSE IF request.method = "initialize" THEN initialize(request)
    ELSE Processed(MCPFailure(request.id, METHOD_NOT_FOUND,
                              "Method {request.method} not found"), << >>)

(* The calls of the model *)

\* A dict entry that is there or not.
Opt(name, present, value) == IF present THEN name :> value ELSE << >>

ToolNames == {TOOLS[i] : i \in DOMAIN TOOLS} \cup {"nonexistent_tool", "search_issues", ""}

ArgumentValues ==
    {<< >>, List(<< >>),
     [jql |-> "project = DP"],
     [issue_key |-> "DP-1", comment |-> "done"],
     [project_key |-> "DP", summary |-> "New issue", priority |-> "High"]}

ParamValues ==
    {List(<< >>)}
    \cup {[name |-> n] : n \in ToolNames}
    \cup {[name |-> n, arguments |-> a] : n \in ToolNames, a \in ArgumentValues}
    \cup {[arguments |-> << >>], [uri |-> <<PROJECTS_URI, "/", "DP">>]}

MethodNames == {"tools/list", "tools/call", "initialize", "resources/list", "notifications/x"}

RpcObjects ==
    {Opt("jsonrpc", j, "2.0") @@ Opt("id", i, "7") @@ Opt("method", TRUE, m) :
        j, i \in BOOLEAN, m \in MethodNames \ {"tools/call"}}
    \cup {Opt("jsonrpc", j, "2.0") @@ Opt("id", i, "7") @@ Opt("method", TRUE, "tools/call")
            @@ Opt("params", TRUE, pv) :
        j, i \in BOOLEAN, pv \in ParamValues}
    \cup {Opt("jsonrpc", TRUE, v) @@ Opt("id", TRUE, "7") : v \in {"2.0", "1.0"}}
    \cup {Opt("jsonrpc", TRUE, "2.0") @@ Opt("id", TRUE, "7") @@ Opt("method", TRUE, "tools/call")}

\* The empty string is the empty form.
GatewayBodies ==
    {NoBody, Form(<< >>), Body("text", << >>), Body("json_array", << >>)}
    \cup {Json(o) : o \in RpcObjects}

TOKEN == <<"token-1">>

HeaderValues ==
    {<< >>,
     [Authorization |-> BEARER \o TOKEN],
     [authorization |-> BEARER \o TOKEN],
     [Authorization |-> <<"Basic ">> \o TOKEN],
     [Authorization |-> <<"Bearer">>],
     [Authorization |-> <<"bearer ">> \o TOKEN],
     [Authorization |-> EMPTY, authorization |-> BEARER \o TOKEN]}

GatewayEvent(method, path, headers, body) ==
    [httpMethod |-> method, path |-> path, headers |-> headers, body |-> body]

GatewayPaths ==
    {<<"/health">>, <<"/.well-known/oauth-protected-resource">>, <<"/mcp">>,
     <<"/">>, STAGE \o <<"/mcp">>, STAGE, <<"/tools">>}

MCPRequests ==
    {MCPRequest(i, m, << >>) : i \in {"7", "8"}, m \in MethodNames \cup {"resources/read"}}
    \cup {MCPRequest("7", "tools/call", pv) : pv \in ParamValues \ {List(<< >>)}}
    \cup {MCPRequest("7", "resources/read", [uri |-> u]) :
            u \in {<<PROJECTS_URI, "/", "DP">>, <<PROJECTS_URI, "/", "XX">>,
                   <<PROJECTS_URI, "/", "">>, <<PROJECTS_URI>>,
                   <<ISSUES_URI, "/", "DP-1">>, <<ISSUES_URI, "/", "">>,
                   <<"jira://boards", "/", "1">>}}

ClientOperations ==
    {"test_connection", "get_projects", "search_issues", "get_issue",
     "create_issue", "add_comment"}

\* What the JiraClient operation gives its caller.
Operation(name, up) ==
    CASE name = "test_connection" -> test_connection(up)
      [] name = "get_projects" -> get_projects(up)
      [] name = "search_issues" -> search_issues(up, "project = DP", 50)
      [] name = "get_issue" -> get_issue(up, "DP-1")
      [] name = "create_issue" -> create_issue(up, "DP", "New issue", "", "Task", None)
      [] name = "add_comment" -> add_comment(up, "DP-1", "done")

(* Actions *)

\* An event reaches fixed_lambda_handler.lambda_handler.
GatewayInvoke ==
    /\ call = NoCall
    /\ \E method \in {"GET", "POST"}, path \in GatewayPaths,
          headers \in HeaderValues, body \in GatewayBodies, jira \in JiraBehaviours :
          /\ method = "GET" => body = NoBody
          /\ \E handled \in {gateway_lambda_handler(
                                GatewayEvent(method, path, headers, body), jira)} :
                /\ call' = [kind |-> "gateway",
                            event |-> GatewayEvent(method, path, headers, body),
                            jira |-> jira]
                /\ answer' = handled.outcome
                /\ invoked' = handled.invoked
    /\ UNCHANGED <<oauthVars, svcVars>>

\* MCPServer.process_request is called with a valid MCPRequest.
ProcessRequest ==
    /\ call = NoCall
    /\ \E request \in MCPRequests, up \in BOOLEAN :
          \E processed \in {process_request(request, up)} :
             /\ call' = [kind |-> "mcp", request |-> request, jira |-> Jira(TRUE, up)]
             /\ answer' = Return(processed.response)
             /\ invoked' = processed.ops
    /\ UNCHANGED <<oauthVars, svcVars>>

\* An operation of the JiraClient is called.
ClientOperation ==
    /\ call = NoCall
    /\ \E name \in ClientOperations, up \in BOOLEAN :
          /\ call' = [kind |-> "jira", op |-> name, jira |-> Jira(TRUE, up)]
          /\ answer' = Operation(name, up)
          /\ invoked' = <<JiraOp(name)>>
    /\ UNCHANGED <<oauthVars, svcVars>>

CallEnds ==
    /\ call # NoCall
    /\ call' = NoCall
    /\ answer' = NoAnswer
    /\ invoked' = << >>
    /\ UNCHANGED <<oauthVars, svcVars>>

NextMcp ==
    \/ GatewayInvoke
    \/ ProcessRequest
    \/ ClientOperation
    \/ CallEnds

SpecMcp == Init /\ [][NextMcp]_vars

-----------------------------------------------------------------------------
(* Reading a call of the gateway *)

OnGateway == call.kind = "gateway"

\* The request is a POST to path (the stage prefix apart).
PostTo(path) ==
    /\ OnGateway
    /\ call.event.httpMethod = "POST"
    /\ call.event.path \in {path, STAGE \o path}

\* The body is a JSON object whose jsonrpc is "2.0".
JsonRpc2(body) ==
    /\ body.kind = "json"
    /\ "jsonrpc" \in DOMAIN body.value
    /\ body.value.jsonrpc = "2.0"

\* No Authorization header, under either spelling, starts with "Bearer ".
NoBearer(headers) ==
    \A n \in DOMAIN headers \cap {"Authorization", "authorization"} :
        ~StartsWith(headers[n], <<"Bearer ">>)

\* The header the handler reads starts with "Bearer ".
HasBearer(headers) ==
    LET upper == IF "Authorization" \in DOMAIN headers
                 THEN headers["Authorization"] ELSE << >>
        lower == IF "authorization" \in DOMAIN headers
                 THEN headers["authorization"] ELSE << >>
    IN  StartsWith(IF upper # << >> THEN upper ELSE lower, <<"Bearer ">>)

RoutedToMcp ==
    \/ PostTo(<<"/mcp">>)
    \/ PostTo(<<"/">>) /\ JsonRpc2(call.event.body)

Status == answer.value.statusCode
Payload == answer.value.body.json

\* Claim C13: a request routed to the MCP handler (POST /mcp, or POST / with
\* a JSON-RPC 2.0 body) whose Authorization header is absent or does not
\* start with "Bearer " gets status 401 with error "unauthorized", and
\* neither tools/list nor tools/call is dispatched, no tool invoked.
C13_BearerRequired ==
    (RoutedToMcp /\ NoBearer(call.event.headers))
        => /\ Status = 401
           /\ "error" \in DOMAIN Payload /\ Payload.error = "unauthorized"
           /\ invoked = << >>

\* A tools/call posted to / under a Basic scheme is turned away.
C13_Witness ==
    /\ PostTo(<<"/">>) /\ JsonRpc2(call.event.body)
    /\ "method" \in DOMAIN call.event.body.value
    /\ call.event.body.value.method = "tools/call"
    /\ "Authorization" \in DOMAIN call.event.headers
    /\ NoBearer(call.event.headers)
    /\ call.jira = Jira(TRUE, TRUE)
    /\ Status = 401 /\ invoked = << >>

\* Claim C14 as stated: a POST to / without an Authorization: Bearer header
\* is answered with 401 and never with 200, whatever its body (here with
\* JIRA reachable).
C14_RootAlwaysRequiresBearer ==
    (PostTo(<<"/">>) /\ NoBearer(call.event.headers) /\ call.jira = Jira(TRUE, TRUE))
        => Status = 401 /\ Status # 200

\* Claim C14, amended: a POST to / is subject to the Bearer requirement
\* exactly when its body is a JSON object whose jsonrpc is "2.0" (then a
\* request without a Bearer header gets 401 and nothing is invoked); with
\* any other body (other JSON, non-JSON, empty or absent) it is answered by
\* the health check whatever its headers: 200 "healthy" when the JIRA
\* client can be constructed, 500 "unhealthy" when not, never 401.
C14_RootRequiresBearerForMcp ==
    PostTo(<<"/">>)
        => IF JsonRpc2(call.event.body)
           THEN NoBearer(call.event.headers) => Status = 401 /\ invoked = << >>
           ELSE /\ "status" \in DOMAIN Payload
                /\ IF call.jira.init
                   THEN Status = 200 /\ Payload.status = "healthy"
                   ELSE Status = 500 /\ Payload.status = "unhealthy"

\* A JSON object that is not JSON-RPC 2.0, posted to / without a header,
\* gets the health check.
C14_Witness ==
    /\ PostTo(<<"/">>)
    /\ call.event.body.kind = "json" /\ ~JsonRpc2(call.event.body)
    /\ call.event.headers = << >>
    /\ Status = 200 /\ Payload.status = "healthy"
    /\ invoked = <<JiraOp("test_connection")>>

\* An authenticated request to the MCP handler whose body is a JSON object.
AuthenticatedObject ==
    /\ RoutedToMcp
    /\ HasBearer(call.event.headers)
    /\ call.event.body.kind = "json"

Request == call.event.body.value

OnProcess == call.kind = "mcp"

\* The envelope has exactly one of result and error.
OneOfResultAndError(envelope) ==
    ("result" \in DOMAIN envelope) # ("error" \in DOMAIN envelope)

\* Claim C15: an authenticated MCP request whose body is a JSON object with
\* an id and a method is answered by one JSON-RPC response whose id is the
\* request's id and which has exactly one of result and error, whether the
\* method is recognised or not and whether the tool fails or not; so is a
\* request processed by MCPServer.process_request.
C15_OneResponseSameId ==
    /\ (AuthenticatedObject /\ {"id", "method"} \subseteq DOMAIN Request)
          => /\ answer.kind = "return"
             /\ "jsonrpc" \in DOMAIN Payload /\ Payload.jsonrpc = "2.0"
             /\ "id" \in DOMAIN Payload /\ Payload.id = Request.id
             /\ OneOfResultAndError(Payload)
    /\ OnProcess
          => /\ answer.kind = "return"
             /\ answer.value.id = call.request.id
             /\ OneOfResultAndError(answer.value)

\* A tools/call of a catalog tool is answered with the request's id while
\* JIRA is failing.
C15_Witness ==
    /\ AuthenticatedObject /\ {"id", "method", "params"} \subseteq DOMAIN Request
    /\ Request.method = "tools/call"
    /\ IsDict(Request.params) /\ "name" \in DOMAIN Request.params
    /\ Request.params.name = "jira_get_issue"
    /\ call.jira = Jira(TRUE, FALSE)
    /\ Payload.id = Request.id /\ "result" \in DOMAIN Payload
    /\ invoked = <<Dispatch("call_tool"), JiraOp("get_issue")>>

\* Claim C16: an authenticated gateway request whose method is neither
\* tools/list nor tools/call is answered with a JSON-RPC error of code
\* -32601 and no result, and neither a tool nor a JIRA operation is invoked.
C16_UnknownMethodNotFound ==
    (/\ AuthenticatedObject
     /\ "method" \in DOMAIN Request => Request.method \notin {"tools/list", "tools/call"})
        => /\ "error" \in DOMAIN Payload /\ Payload.error.code = -32601
           /\ "result" \notin DOMAIN Payload
           /\ invoked = << >>

\* An authenticated initialize posted to /mcp is not found.
C16_Witness ==
    /\ PostTo(<<"/mcp">>) /\ AuthenticatedObject
    /\ "method" \in DOMAIN Request /\ Request.method = "initialize"
    /\ Status = 400 /\ Payload.error.code = -32601
    /\ invoked = << >>

\* An authenticated tools/call whose params are a dict.
OnToolsCall ==
    /\ AuthenticatedObject
    /\ "method" \in DOMAIN Request /\ Request.method = "tools/call"
    /\ "params" \in DOMAIN Request => IsDict(Request.params)

\* params.get('name', '')
ToolName ==
    IF "params" \in DOMAIN Request /\ "name" \in DOMAIN Request.params
    THEN Request.params.name
    ELSE ""

Catalog == {TOOLS[i] : i \in DOMAIN TOOLS}

\* The result of the envelope is one text content block.
OneTextBlock(envelope) ==
    /\ "result" \in DOMAIN envelope
    /\ DOMAIN envelope.result = {"content"}
    /\ Len(envelope.result.content) = 1
    /\ envelope.result.content[1].type = "text"

TextOf(envelope) == envelope.result.content[1].text

\* The error message that the text reports, None when it reports none.
ErrorIn(text) ==
    CASE text.format = "Error calling {tool_name}: {e}" -> text.args[2]
      [] text.format = "Error creating JIRA Issue: {error} Issue data attempted: {issue_data}"
            -> text.args[1]
      [] text.format = "Error adding comment to JIRA Issue {issue_key}: {error}"
            -> text.args[2]
      [] text.format = "JIRA Health Check: {result}"
            -> IF "error" \in DOMAIN text.args[1].json
               THEN text.args[1].json.error ELSE None
      [] OTHER -> None

\* The JIRA client could not be built, or was built and its operation
\* was called and failed.
JiraFailed ==
    \/ ~call.jira.init
    \/ ~call.jira.up /\ \E i \in DOMAIN invoked : invoked[i].layer = "jira"

C18_UnknownToolText ==
    (OnToolsCall /\ ToolName \notin Catalog)
        => /\ Status = 200
           /\ OneTextBlock(Payload)
           /\ TextOf(Payload) = Text("Unknown tool: {tool_name}", <<ToolName>>)
           /\ invoked = <<Dispatch("call_tool")>>

OnMcpToolsCall ==
    /\ OnProcess
    /\ call.request.method = "tools/call"
    /\ "name" \in DOMAIN call.request.params

McpCatalog == {MCP_TOOLS[i] : i \in DOMAIN MCP_TOOLS}

\* Claim C19 as stated: in each dispatcher, a tools/call whose name is not
\* in that dispatcher's catalog fails with a JSON-RPC error object and has
\* no result.
C19_UnknownToolIsError ==
    /\ (OnToolsCall /\ ToolName \notin Catalog)
          => "error" \in DOMAIN Payload /\ "result" \notin DOMAIN Payload
    /\ (OnMcpToolsCall /\ call.request.params.name \notin McpCatalog)
          => /\ "error" \in DOMAIN answer.value
             /\ "result" \notin DOMAIN answer.value

\* Claim C19, amended: the two dispatchers answer a tools/call whose name is
\* not in their catalog differently.  MCPServer fails it with a JSON-RPC
\* error object of code -404 and message "Tool <name> not found", without a
\* result.  The gateway with JiraMCPServer answers it with status 200 and a
\* result that is one text content block ("Unknown tool: <name>" when the
\* JIRA client can be constructed), without an error object.  Neither
\* invokes a JIRA operation.
C19_UnknownToolPerDispatcher ==
    /\ (OnMcpToolsCall /\ call.request.params.name \notin McpCatalog)
          => /\ "error" \in DOMAIN answer.value
             /\ answer.value.error.code = -404
             /\ answer.value.error.message = "Tool {tool_name} not found"
             /\ "result" \notin DOMAIN answer.value
             /\ invoked = << >>
    /\ (OnToolsCall /\ ToolName \notin Catalog)
          => /\ Status = 200
             /\ OneTextBlock(Payload)
             /\ "error" \notin DOMAIN Payload
             /\ call.jira.init
                   => TextOf(Payload) = Text("Unknown tool: {tool_name}", <<ToolName>>)
             /\ invoked = <<Dispatch("call_tool")>>

\* The gateway answers a tools/call of nonexistent_tool with a result.
C19_Witness ==
    /\ OnToolsCall /\ ToolName = "nonexistent_tool"
    /\ call.jira.init
    /\ Status = 200
    /\ TextOf(Payload) = Text("Unknown tool: {tool_name}", <<ToolName>>)
    /\ "error" \notin DOMAIN Payload

OnClient == call.kind = "jira"

\* Claim C20 as stated: every JiraClient operation ends with a success
\* payload or, on a backend failure, with a mapping that has an "error"
\* message; none lets the backend exception reach its caller.
C20_NoExceptionEscapes ==
    OnClient
        => /\ answer.kind = "return"
           /\ ~call.jira.up => "error" \in DOMAIN answer.value

\* Claim C20, amended: on success every JiraClient operation returns its
\* payload.  On a backend failure test_connection, create_issue and
\* add_comment return a mapping with an "error" message, while
\* get_projects, search_issues and get_issue log the exception and raise it
\* again to their caller.
C20_OutcomeShapes ==
    OnClient
        => IF call.jira.up
           THEN answer.kind = "return"
           ELSE IF call.op \in {"test_connection", "create_issue", "add_comment"}
           THEN /\ answer.kind = "return"
                /\ "error" \in DOMAIN answer.value
                /\ answer.value.error = BACKEND_ERROR
           ELSE answer = Raised(BACKEND_ERROR)

\* get_projects raises while create_issue would return a mapping.
C20_Witness ==
    /\ OnClient /\ call.op = "get_projects" /\ ~call.jira.up
    /\ answer.kind = "raise"

\* The request is served by handle_health_check, whose JiraClient cannot be
\* constructed.
HealthFails ==
    /\ OnGateway
    /\ \/ call.event.httpMethod = "GET"
          /\ call.event.path \in {<<"/health">>, STAGE \o <<"/health">>}
       \/ PostTo(<<"/">>) /\ ~JsonRpc2(call.event.body)
    /\ ~call.jira.init

\* handle_mcp_request raises after the Bearer check: the body is no JSON
\* object, or the params of tools/call are no dict.
McpFails ==
    /\ RoutedToMcp /\ HasBearer(call.event.headers)
    /\ \/ call.event.body.kind # "json"
       \/ /\ "method" \in DOMAIN Request /\ Request.method = "tools/call"
          /\ "params" \in DOMAIN Request /\ ~IsDict(Request.params)

\* The exception is raised again inside the except clause of
\* handle_mcp_request: request_data is bound to a value without get.
McpFailsTwice == McpFails /\ call.event.body.kind \in {"none", "json_array"}

IsInternalServerError ==
    /\ Status = 500
    /\ DOMAIN Payload = {"error", "error_description"}
    /\ Payload.error = "internal_server_error"

C22_JsonAndCorsHeaders ==
    event # NoEvent
        => /\ {"ContentType", "AccessControlAllowOrigin"} \subseteq DOMAIN response.headers
           /\ response.headers.ContentType = "application/json"
           /\ response.headers.AccessControlAllowOrigin = "*"

-----------------------------------------------------------------------------
(* The token endpoint: order of validation, effects and lifetimes *)

Missing(p) == EMPTY \in {p.code, p.redirect_uri, p.client_id, p.code_verifier}

\* Claim C24: handle_token_request validates in a fixed order.  A grant_type
\* other than authorization_code gives unsupported_grant_type even when
\* code, redirect_uri, client_id or code_verifier are missing; with the
\* right grant_type a missing one of the four gives invalid_request; in both
\* cases the store is neither read (a failing store goes unnoticed) nor
\* changed.
C24_ValidationOrder ==
    (OnToken /\ result # NoResult)
        => /\ TokenP.grant_type # AUTHORIZATION_CODE
                 => /\ ReturnedError("unsupported_grant_type")
                    /\ storeError = "none" /\ table = before.table
           /\ (TokenP.grant_type = AUTHORIZATION_CODE /\ Missing(TokenP))
                 => /\ ReturnedError("invalid_request")
                    /\ storeError = "none" /\ table = before.table

\* A refresh_token request without any other parameter.
C24_Witness ==
    /\ OnToken
    /\ TokenP.grant_type = <<"refresh_token">>
    /\ TokenP.code = EMPTY /\ TokenP.code_verifier = EMPTY
    /\ ReturnedError("unsupported_grant_type")
    /\ table # << >> /\ table = before.table

\* Claim C25: whenever handle_token_request returns an error mapping (any
\* error code, server_error from a failing store call at any step
\* included), the store holds no access-token record that was not there
\* before the call and the presented authorization-code record is
\* unchanged.
C25_ErrorLeavesStoreAlone ==
    (OnToken /\ Returned /\ "error" \in DOMAIN result.value)
        => /\ TokenKeys(table) \subseteq TokenKeys(before.table)
           /\ LET key == CodeKey(TokenP.code)
              IN  IF key \in DOMAIN before.table
                  THEN key \in DOMAIN table /\ table[key] = before.table[key]
                  ELSE key \notin DOMAIN table

\* Claim C26: the access token is persisted before the authorization code is
\* deleted.  In every reachable state, one where the invocation stopped
\* between the two store calls included, a code record that has been
\* deleted has a stored access token issued for it.
C26_NoCodeConsumedWithoutToken ==
    \A code \in DOMAIN issued :
        CodeKey(code) \notin DOMAIN table
            => \E t \in TokensOf(code) :
                  /\ TokenKey(t) \in DOMAIN table
                  /\ table[TokenKey(t)] = minted[t].item

\* A code has been deleted by the request in flight, after its token was
\* stored.
C26_Witness ==
    /\ OnToken /\ storeError = "none"
    /\ CodeKey(TokenP.code) \in DOMAIN before.table
    /\ CodeKey(TokenP.code) \notin DOMAIN table
    /\ \E t \in TokensOf(TokenP.code) : TokenKey(t) \in DOMAIN table \ DOMAIN before.table

\* The seconds a record lives, by the kind of its key.
Lifetime(k) ==
    IF IsTokenKey(k) THEN TOKEN_TTL
    ELSE IF IsCodeKey(k) THEN CODE_TTL
    ELSE CLIENT_TTL

\* Claim C27: every stored record satisfies its lifetime equation exactly,
\* also when the clock ticks during the operation that creates it:
\* expires_at = created_at + 3600 for access tokens, + 600 for authorization
\* codes and + 2592000 for client registrations.
C27_LifetimeExact ==
    \A k \in DOMAIN table :
        int(table[k].expires_at) = int(table[k].created_at) + Lifetime(k)

-----------------------------------------------------------------------------
(* design-ui-ux-generator-figma/backend/bedrock_service.py: CircuitBreaker *)

\* bedrock_circuit_breaker = CircuitBreaker(failure_threshold=5,
\*                                          recovery_timeout=300)
FAILURE_THRESHOLD == 5
RECOVERY_TIMEOUT == 300

MaxFailures == 7
MaxTime == 1000

\* A recovery test that lets the trial through at the timeout itself.
Recovered_at_timeout(cb, t) == t - cb.last_failure_time >= RECOVERY_TIMEOUT

\* time.time() - self.last_failure_time > self.recovery_timeout
Recovered(cb, t) == t - cb.last_failure_time > RECOVERY_TIMEOUT

\* What call did: the breaker it leaves, whether func was invoked, and
\* whether call returned the result of func ("returned"), raised the
\* exception of func ("raised") or raised its own ("refused").
BreakerOutcome(cb, ran, how) == [breaker |-> cb, invoked |-> ran, how |-> how]

\* CircuitBreaker.call(func) at time t, where func succeeds or raises.
CircuitBreaker_call(cb, t, succeeds) ==
    IF cb.state = "OPEN" /\ ~Recovered(cb, t)
    THEN BreakerOutcome(cb, FALSE, "refused")
    ELSE
    LET state == IF cb.state = "OPEN" THEN "HALF_OPEN" ELSE cb.state
    IN  IF succeeds
        THEN BreakerOutcome(
                 IF state = "HALF_OPEN"
                 THEN [cb EXCEPT !.state = "CLOSED", !.failure_count = 0]
                 ELSE [cb EXCEPT !.state = state],
                 TRUE, "returned")
        ELSE LET failure_count == cb.failure_count + 1
             IN  BreakerOutcome(
                     [state |-> IF failure_count >= FAILURE_THRESHOLD
                                THEN "OPEN" ELSE state,
                      failure_count |-> failure_count,
                      last_failure_time |-> t],
                     TRUE, "raised")

(* Actions *)

\* bedrock_circuit_breaker.call(func) is called.
BreakerCall ==
    \E succeeds \in BOOLEAN :
        \E did \in {CircuitBreaker_call(breaker, clock, succeeds)} :
            /\ did.breaker.failure_count <= MaxFailures
            /\ breaker' = did.breaker
            /\ lastOp' = [kind |-> "breaker", before |-> breaker, at |-> clock,
                          succeeds |-> succeeds, invoked |-> did.invoked,
                          how |-> did.how]
            /\ UNCHANGED <<oauthVars, mcpVars, clock, claude_model_id>>

\* Time passes between calls: the recovery timeout exactly, or a second more.
Advance ==
    \E d \in {RECOVERY_TIMEOUT, RECOVERY_TIMEOUT + 1} :
        /\ clock + d <= MaxTime
        /\ clock' = clock + d
        /\ UNCHANGED <<oauthVars, mcpVars, breaker, claude_model_id, lastOp>>

NextBreaker ==
    \/ BreakerCall
    \/ Advance

SpecBreaker == Init /\ [][NextBreaker]_vars

OnBreaker == lastOp.kind = "breaker"

\* The call found the breaker OPEN with more than recovery_timeout seconds
\* passed since the last failure.
Trial ==
    /\ lastOp.before.state = "OPEN"
    /\ lastOp.at - lastOp.before.last_failure_time > 300

\* Claim C28: CircuitBreaker.call invokes func only when the state is
\* CLOSED, or when it is OPEN and more than recovery_timeout seconds have
\* passed since last_failure_time (a trial); while OPEN within the timeout
\* it raises without invoking func; a successful trial sets the state to
\* CLOSED with failure_count 0, a failed trial sets it back to OPEN; and in
\* every reachable state OPEN implies failure_count >= failure_threshold.
C28_CircuitBreaker ==
    /\ OnBreaker
          => /\ lastOp.invoked <=> (lastOp.before.state = "CLOSED" \/ Trial)
             /\ (lastOp.before.state = "OPEN" /\ ~Trial)
                   => /\ ~lastOp.invoked /\ lastOp.how = "refused"
                      /\ breaker = lastOp.before
             /\ (Trial /\ lastOp.succeeds)
                   => /\ breaker.state = "CLOSED" /\ breaker.failure_count = 0
                      /\ lastOp.how = "returned"
             /\ (Trial /\ ~lastOp.succeeds)
                   => breaker.state = "OPEN" /\ lastOp.how = "raised"
    /\ breaker.state = "OPEN" => breaker.failure_count >= 5

\* A trial call has failed and the breaker is OPEN again.
C28_Witness ==
    /\ OnBreaker /\ Trial /\ ~lastOp.succeeds
    /\ lastOp.invoked
    /\ breaker.state = "OPEN"
    /\ breaker.failure_count = lastOp.before.failure_count + 1

-----------------------------------------------------------------------------
(* design-ui-ux-generator-figma/backend/bedrock_service.py: BedrockService *)

\* def _invoke_model_with_retry(self, model_id, request_body, max_retries=5)
DEFAULT_MAX_RETRIES == 5

MaxRetries == 3

NOVA_CANVAS == "amazon.nova-canvas-v1:0"
HAIKU == "anthropic.claude-3-haiku-20240307-v1:0"

Models == {claude_models[i] : i \in DOMAIN claude_models}

MaxListed == 2

\* The Claude models among the modelSummaries of list_foundation_models.
ModelLists == {model_ids \in SUBSET Models : Cardinality(model_ids) <= MaxListed}

\* What one invoke_model attempt does: it returns a response ("ok"), raises
\* a ClientError whose message carries ThrottlingException or "Too many
\* requests" ("throttled"), raises the ClientError of a ValidationException
\* about "Invocation of model ID" ("invalid_model"), raises another
\* ClientError ("client_error"), or raises an exception that is no
\* ClientError ("error").
Outcomes == {"ok", "throttled", "invalid_model", "client_error", "error"}

\* except ClientError as e
IsClientError(outcome) == outcome \in {"throttled", "invalid_model", "client_error"}

\* A test that takes every ClientError for throttling.
Throttling_any_client_error(outcome) == IsClientError(outcome)

\* 'ThrottlingException' in error_message or 'Too many requests' in error_message
Throttling(outcome) == outcome = "throttled"

\* The frame of _invoke_model_with_retry before its loop: who called it,
\* with which model and max_retries, how many attempts were made, whether
\* the loop is "running", has "returned" or has "raised", the outcome of
\* the latest attempt, and the exception raised.
RetryFrame(caller, model_id, max_retries) ==
    [kind |-> "retry", caller |-> caller, model_id |-> model_id,
     max_retries |-> max_retries, attempt |-> 0, status |-> "running",
     last |-> None, error |-> None]

\* One pass of the body of `for attempt in range(max_retries + 1)`, the
\* attempt ending with the given outcome.
AttemptStep(frame, outcome) ==
    LET attempt == frame.attempt
        made == [frame EXCEPT !.attempt = attempt + 1, !.last = outcome]
    IN  IF outcome = "ok"
        THEN [made EXCEPT !.status = "returned"]
        ELSE IF IsClientError(outcome)
        THEN IF Throttling(outcome)
             THEN IF attempt < frame.max_retries
                  THEN made
                  ELSE [made EXCEPT !.status = "raised",
                                    !.error = "ThrottlingException"]
             ELSE [made EXCEPT !.status = "raised", !.error = outcome]
        ELSE IF attempt < frame.max_retries
             THEN made
             ELSE [made EXCEPT !.status = "raised", !.error = outcome]

\* BedrockService.__init__: the first model of claude_models that
\* list_foundation_models reports, Claude 3 Haiku when there is none or the
\* listing raises.
FirstAvailable(listed, model_ids) ==
    IF listed /\ \E i \in DOMAIN claude_models : claude_models[i] \in model_ids
    THEN claude_models[CHOOSE i \in DOMAIN claude_models :
                           /\ claude_models[i] \in model_ids
                           /\ \A j \in 1..(i - 1) : claude_models[j] \notin model_ids]
    ELSE HAIKU

\* A loop that does not pass over the current model.
Skipped_never(fallback_model, current) == FALSE

\* `if fallback_model != self.claude_model_id` fails
Skipped(fallback_model, current) == fallback_model = current

\* The fallback loop of generate_ui_description from the i-th model of
\* claude_models on: the models invoked so far, and the model that answered
\* or None. answering holds the models whose invoke_model returns a
\* response that parses.
RECURSIVE Fallbacks(_, _, _, _)
Fallbacks(i, current, answering, tried) ==
    IF i > Len(claude_models)
    THEN [tried |-> tried, used |-> None]
    ELSE LET fallback_model == claude_models[i]
         IN  IF Skipped(fallback_model, current)
             THEN Fallbacks(i + 1, current, answering, tried)
             ELSE IF fallback_model \in answering
             THEN [tried |-> Append(tried, fallback_model), used |-> fallback_model]
             ELSE Fallbacks(i + 1, current, answering, Append(tried, fallback_model))

\* generate_ui_description once _invoke_model_with_retry has ended with the
\* given frame: what it returns, the fallback models it invoked, and the
\* claude_model_id it leaves.
generate_ui_description(frame, current, answering) ==
    IF frame.status = "returned"
    THEN [success |-> TRUE, error |-> None, tried |-> << >>, used |-> current,
          claude_model_id |-> current]
    ELSE IF IsClientError(frame.error) \/ frame.error = "ThrottlingException"
    THEN IF frame.error = "invalid_model"
         THEN LET loop == Fallbacks(1, current, answering, << >>)
              IN  IF loop.used # None
                  THEN [success |-> TRUE, error |-> None, tried |-> loop.tried,
                        used |-> loop.used, claude_model_id |-> loop.used]
                  ELSE [success |-> FALSE, error |-> "All model fallbacks failed",
                        tried |-> loop.tried, used |-> None,
                        claude_model_id |-> current]
         ELSE [success |-> FALSE, error |-> "AWS client error", tried |-> << >>,
               used |-> None, claude_model_id |-> current]
    ELSE [success |-> FALSE, error |-> frame.error, tried |-> << >>,
          used |-> None, claude_model_id |-> current]

Running == lastOp.kind = "retry" /\ lastOp.status = "running"

\* _invoke_model_with_retry has ended inside generate_ui_description.
Pending == lastOp.kind = "retry" /\ lastOp.caller = "generate"

(* Actions *)

\* BedrockService() is constructed.
Initialize ==
    /\ ~Running /\ ~Pending
    /\ \E listed \in BOOLEAN, model_ids \in ModelLists :
           /\ claude_model_id' = FirstAvailable(listed, model_ids)
           /\ lastOp' = [kind |-> "init", listed |-> listed, model_ids |-> model_ids]
    /\ UNCHANGED <<oauthVars, mcpVars, breaker, clock>>

\* generate_ui_mockup or generate_multiple_ui_mockups reaches its call of
\* _invoke_model_with_retry.
InvokeBegin ==
    /\ ~Running /\ ~Pending
    /\ \E max_retries \in 0..MaxRetries :
           lastOp' = RetryFrame("mockup", NOVA_CANVAS, max_retries)
    /\ UNCHANGED <<oauthVars, mcpVars, breaker, clock, claude_model_id>>

\* generate_ui_description reaches its call of _invoke_model_with_retry.
GenerateBegin ==
    /\ ~Running /\ ~Pending
    /\ lastOp' = RetryFrame("generate", claude_model_id, DEFAULT_MAX_RETRIES)
    /\ UNCHANGED <<oauthVars, mcpVars, breaker, clock, claude_model_id>>

\* One attempt of the retry loop.
Attempt ==
    /\ Running
    /\ lastOp.attempt < lastOp.max_retries + 1
    /\ \E outcome \in Outcomes : lastOp' = AttemptStep(lastOp, outcome)
    /\ UNCHANGED <<oauthVars, mcpVars, breaker, clock, claude_model_id>>

\* generate_ui_description goes on after _invoke_model_with_retry and
\* returns.
GenerateEnds ==
    /\ Pending /\ ~Running
    /\ \E answering \in IF lastOp.error = "invalid_model"
                        THEN SUBSET Models ELSE {{}} :
           \E r \in {generate_ui_description(lastOp, claude_model_id, answering)} :
               /\ claude_model_id' = r.claude_model_id
               /\ lastOp' = [kind |-> "generate", before |-> claude_model_id,
                             primary |-> lastOp, answering |-> answering,
                             success |-> r.success, error |-> r.error,
                             tried |-> r.tried, used |-> r.used]
    /\ UNCHANGED <<oauthVars, mcpVars, breaker, clock>>

NextBedrock ==
    \/ Initialize
    \/ InvokeBegin
    \/ GenerateBegin
    \/ Attempt
    \/ GenerateEnds

SpecBedrock == Init /\ [][NextBedrock]_vars

\* The retry loop is one thread of control: once begun it goes on.
SpecBedrockLive == SpecBedrock /\ WF_vars(Attempt)

OnRetry == lastOp.kind = "retry"

\* The bounds and outcomes of the retry loop, in every state of it.
C29_Bounded ==
    OnRetry
       => /\ lastOp.attempt <= lastOp.max_retries + 1
          /\ lastOp.status = "running"
                => /\ lastOp.attempt < lastOp.max_retries + 1
                   /\ lastOp.attempt > 0 => lastOp.last \in {"throttled", "error"}
          /\ lastOp.status = "returned" <=> lastOp.last = "ok"
          /\ lastOp.last \in {"invalid_model", "client_error"}
                => lastOp.status = "raised" /\ lastOp.error = lastOp.last
          /\ (lastOp.last = "throttled" /\ lastOp.attempt = lastOp.max_retries + 1)
                => lastOp.status = "raised" /\ lastOp.error = "ThrottlingException"
          /\ (lastOp.last = "error" /\ lastOp.attempt = lastOp.max_retries + 1)
                => lastOp.status = "raised"

\* Once the loop has returned or raised, no further attempt is made in it.
C29_Final ==
    (OnRetry /\ lastOp.status # "running") => ~(OnRetry' /\ lastOp'.attempt > 0)

\* Claim C29: _invoke_model_with_retry always terminates after at most
\* max_retries + 1 invoke_model attempts: it returns the first successful
\* response, retries only after a throttling ClientError or an exception
\* that is no ClientError, raises a non-throttling ClientError after that
\* single attempt, and raises a ThrottlingException once throttling
\* persists through the last attempt.
C29_RetryTerminates ==
    /\ []C29_Bounded
    /\ [][C29_Final]_vars
    /\ Running ~> ~Running

\* Throttling has persisted through every attempt of a call allowed retries.
C29_Witness ==
    /\ OnRetry /\ lastOp.max_retries >= 1
    /\ lastOp.attempt = lastOp.max_retries + 1
    /\ lastOp.last = "throttled"
    /\ lastOp.status = "raised" /\ lastOp.error = "ThrottlingException"

OnGenerate == lastOp.kind = "generate"

\* The current model failed with the ValidationException about
\* "Invocation of model ID".
InvalidModel == OnGenerate /\ lastOp.primary.error = "invalid_model"

\* The models of claude_models other than the current one, in list order.
Others == SelectSeq(claude_models, LAMBDA m : m # lastOp.before)

-----------------------------------------------------------------------------
(* design-solutionarchitecture-agent/functions/drawing_function/lambda_handler.py *)

MaxTries == 3

\* What one call of func does: it raises an exception, or it returns a
\* pair of an image and a file name either of which may be None, as
\* diagram_tool does.
Raises == [raises |-> TRUE, value |-> << >>]
Returns(image, file_name) == [raises |-> FALSE, value |-> <<image, file_name>>]
FuncOutcomes ==
    {Raises} \cup {Returns(image, file_name) :
                       image \in {None, "img"}, file_name \in {None, "diagram.png"}}

\* A test that takes every tuple for a result.
NoneFree_unchecked(value) == TRUE

\* all(r is not None for r in result if isinstance(result, tuple)), for a
\* result that is a tuple
NoneFree(value) == \A i \in DOMAIN value : value[i] # None

\* retry_with_backoff(func, max_retries=max_retries) from the given attempt
\* on, outcomes[k] being what the k-th call of func does: the value
\* returned and the number of calls of func made.
RECURSIVE retry_with_backoff(_, _, _)
retry_with_backoff(outcomes, max_retries, attempt) ==
    IF attempt >= max_retries
    THEN [result |-> <<None, None>>, calls |-> attempt]
    ELSE LET outcome == outcomes[attempt + 1]
         IN  IF ~outcome.raises /\ NoneFree(outcome.value)
             THEN [result |-> outcome.value, calls |-> attempt + 1]
             ELSE retry_with_backoff(outcomes, max_retries, attempt + 1)

\* lambda_handler: `if image is None or file_name is None`
DiagramBody(returned) ==
    IF returned[1] = None \/ returned[2] = None
    THEN "Error generating diagram"
    ELSE "diagram"

(* Actions *)

\* retry_with_backoff is called and returns to lambda_handler.
RetryWithBackoff ==
    \E max_retries \in 0..MaxTries :
        \E outcomes \in [1..max_retries -> FuncOutcomes] :
            \E r \in {retry_with_backoff(outcomes, max_retries, 0)} :
                /\ lastOp' = [kind |-> "drawing", max_retries |-> max_retries,
                              outcomes |-> outcomes, calls |-> r.calls,
                              result |-> r.result, body |-> DiagramBody(r.result)]
                /\ UNCHANGED <<oauthVars, mcpVars, breaker, clock, claude_model_id>>

NextDrawing == RetryWithBackoff

SpecDrawing == Init /\ [][NextDrawing]_vars

OnDrawing == lastOp.kind = "drawing"

\* The k-th call of func would return a tuple with no None component.
Good(k) ==
    /\ ~lastOp.outcomes[k].raises
    /\ None \notin {lastOp.outcomes[k].value[i] : i \in 1..2}

\* Claim C30: retry_with_backoff calls func at most max_retries times and
\* propagates no exception of func: it returns the result of the first
\* attempt that is a tuple with no None component and stops calling func
\* after that, and it returns (None, None) when every attempt raised or
\* returned a tuple containing None.
C30_RetryWithBackoff ==
    OnDrawing
       => /\ lastOp.calls <= lastOp.max_retries
          /\ (\E k \in 1..lastOp.max_retries : Good(k))
                => /\ Good(lastOp.calls)
                   /\ \A k \in 1..(lastOp.calls - 1) : ~Good(k)
                   /\ lastOp.result = lastOp.outcomes[lastOp.calls].value
                   /\ lastOp.body = "diagram"
          /\ (\A k \in 1..lastOp.max_retries : ~Good(k))
                => /\ lastOp.calls = lastOp.max_retries
                   /\ lastOp.result = <<None, None>>
                   /\ lastOp.body = "Error generating diagram"

\* The first call raised, the second returned a tuple containing None, and
\* the third returned the diagram.
C30_Witness ==
    /\ OnDrawing /\ lastOp.max_retries = 3 /\ lastOp.calls = 3
    /\ lastOp.outcomes[1].raises
    /\ lastOp.outcomes[2] = Returns("img", None)
    /\ lastOp.result = <<"img", "diagram.png">>

====
